---- MODULE Spec2Model ----
(***************************************************************************)
(* A model of the photo watermark tool (package watermark_app).            *)
(*                                                                         *)
(* The module holds several specifications, one per part of the program:   *)
(*   SpecExport     the image list and the batch export pipeline           *)
(*                  (MainWindow._export_images, _determine_output_path)    *)
(*   SpecImages     the image list under imports, drops and removals       *)
(*                  (ImageManager)                                         *)
(*   SpecResize     the resize step of the export (MainWindow._resize_image)*)
(*   SpecRender     the export of one decoded item: resize, overlay,       *)
(*                  placement and compositing (WatermarkRenderer)          *)
(*   SpecPreview    the preview and its drag interaction (PreviewWidget,   *)
(*                  the layout handlers of MainWindow and ControlsPanel)   *)
(*   SpecStore      the settings file, the templates and the controls      *)
(*                  (SettingsStore, TemplateManager, ControlsPanel)        *)
(* Each specification leaves the variables of the other parts unchanged.   *)
(***************************************************************************)
EXTENDS Integers, Sequences, FiniteSets, TLC

VARIABLES
    files,            \* the files that exist: a set of <<location, file name>>
    corrupt,          \* the files whose content does not decode as an image
    items,            \* ImageManager._items: a sequence of source paths
    export_settings,  \* MainWindow.export_settings
    last_export,      \* what the last run of _export_images did (history)
    last_add,         \* what the last change of the image list did (history)
    thumbnail_cache,  \* ImageManager._thumbnail_cache: the paths it holds
    image_list,       \* MainWindow.image_list: the path of each row shown
    src_size,         \* <<width, height>> of the decoded source image of an item
    resize_settings,  \* ExportSettings.resize_mode and .resize_value
    resized,          \* what _resize_image did with the image (history)
    watermark_settings, \* MainWindow.watermark_settings
    composed,         \* what the export did with one decoded item (history)
    base_pixmap,      \* PreviewWidget._base_pixmap: its size, <<0, 0>> for None
    watermark_pixmap, \* PreviewWidget._watermark_pixmap: an overlay
    widget_size,      \* the size of the preview widget
    scale_factor,     \* PreviewWidget._scale_factor
    draw_rect,        \* PreviewWidget._draw_rect
    dragging,         \* PreviewWidget._dragging
    drag_delta,       \* PreviewWidget._drag_delta
    last_move,        \* what the last mouseMoveEvent did (history)
    last_event,       \* the event of the step just taken (history)
    events,           \* the number of events the preview has seen
    templates,        \* the templates directory: stem -> document
    template_names,   \* ControlsPanel._template_names: the list shown
    state_file,       \* app_state.json: whether it exists, and its document
    running,          \* the program is running
    widgets,          \* the values the widgets of ControlsPanel show
    last_store,       \* what the last step did with the stores (history)
    store_ops         \* the number of steps SpecStore has taken

exportVars ==
    <<files, corrupt, items, export_settings, last_export, last_add,
      thumbnail_cache, image_list>>
resizeVars == <<src_size, resize_settings, resized>>
renderVars == <<watermark_settings, composed>>
previewVars ==
    <<base_pixmap, watermark_pixmap, widget_size, scale_factor, draw_rect,
      dragging, drag_delta, last_move, last_event, events>>
storeVars ==
    <<templates, template_names, state_file, running, widgets, last_store,
      store_ops>>
vars == <<exportVars, resizeVars, renderVars, previewVars, storeVars>>

(***************************************************************************)
(* Bounds of the model.                                                    *)
(***************************************************************************)
MaxItems == 2       \* longest image list
MaxFiles == 6       \* an export starts only while fewer files than this exist
MaxDim == 4         \* the small source images are 1..MaxDim pixels wide and high
MaxEvents == 4      \* events in one run of the preview
MaxValue == 5       \* the small resize values are 0..MaxValue
MaxImages == 3      \* longest image list of SpecImages
MaxTemplates == 2   \* most template files in the templates directory
MaxStoreOps == 5    \* steps in one run of SpecStore

(***************************************************************************)
(* Numbers.  The program computes positions in doubles; the model computes *)
(* them exactly, as fractions <<n, d>> in lowest terms with d > 0.         *)
(***************************************************************************)
Max(a, b) == IF a >= b THEN a ELSE b
Min(a, b) == IF a <= b THEN a ELSE b
Abs(a) == IF a < 0 THEN -a ELSE a

RECURSIVE GCD(_, _)
GCD(a, b) == IF b = 0 THEN a ELSE GCD(b, a % b)

Rat(n, d) ==
    LET g == GCD(Abs(n), Abs(d))
        sgn == IF d < 0 THEN -1 ELSE 1
    IN  <<(sgn * n) \div g, (sgn * d) \div g>>

RInt(n) == <<n, 1>>
RAdd(a, b) == Rat(a[1] * b[2] + b[1] * a[2], a[2] * b[2])
RSub(a, b) == Rat(a[1] * b[2] - b[1] * a[2], a[2] * b[2])
RMul(a, b) == Rat(a[1] * b[1], a[2] * b[2])
RDiv(a, b) == Rat(a[1] * b[2], a[2] * b[1])
RLe(a, b) == a[1] * b[2] <= b[1] * a[2]
RLt(a, b) == a[1] * b[2] < b[1] * a[2]
RMax(a, b) == IF RLe(b, a) THEN a ELSE b
RMin(a, b) == IF RLe(a, b) THEN a ELSE b
\* math.ceil
Ceil(a) == -((-a[1]) \div a[2])

(***************************************************************************)
(* The file system.  A directory path names a location; "L" is a second    *)
(* path (a symbolic link) to the location of "A".  Every directory of the  *)
(* model exists, so that the mkdir(exist_ok=True) of an export changes     *)
(* nothing.                                                                *)
(***************************************************************************)
Dirs == {"A", "B", "L"}

Loc(d) == IF d = "L" THEN "A" ELSE d

\* Path.samefile: both paths name the same underlying location.
samefile(d1, d2) == Loc(d1) = Loc(d2)

\* A path is [dir, stem, ext]; its file name is stem \o ext.
FileId(path) == <<Loc(path.dir), path.stem \o path.ext>>

\* Path.exists
exists(path, fs) == FileId(path) \in fs

MkPath(d, stem, ext) == [dir |-> d, stem |-> stem, ext |-> ext]

\* The source images the user can import.
SourcePaths ==
    { MkPath("A", "a", ".png"), MkPath("A", "a", ".jpg"),
      MkPath("B", "a", ".png") }

\* str(int) for a counter
Digit(n) ==
    CASE n = 0 -> "0" [] n = 1 -> "1" [] n = 2 -> "2" [] n = 3 -> "3"
      [] n = 4 -> "4" [] n = 5 -> "5" [] n = 6 -> "6" [] n = 7 -> "7"
      [] n = 8 -> "8" [] n = 9 -> "9"

RECURSIVE IntToStr(_)
IntToStr(n) == IF n < 10 THEN Digit(n) ELSE IntToStr(n \div 10) \o Digit(n % 10)

(***************************************************************************)
(* ImageManager                                                            *)
(***************************************************************************)
SUPPORTED_INPUT_EXTENSIONS == {".jpg", ".jpeg", ".png", ".bmp", ".tif", ".tiff"}

\* ImageManager.load_pixmap: None (FALSE) when the file does not decode.
load_pixmap(path, fs, bad) == FileId(path) \in fs /\ FileId(path) \notin bad

\* an ImageManager.add_paths that does not look for the path in the list
RECURSIVE add_paths_unchecked(_, _, _)
add_paths_unchecked(its, paths, fs) ==
    IF paths = <<>> THEN its
    ELSE LET path == Head(paths)
             skip == \/ ~exists(path, fs)
                     \/ path.ext \notin SUPPORTED_INPUT_EXTENSIONS
         IN  add_paths_unchecked(IF skip THEN its ELSE Append(its, path),
                                 Tail(paths), fs)

\* ImageManager.add_paths: the list after adding `paths` in order.
RECURSIVE add_paths(_, _, _)
add_paths(its, paths, fs) ==
    IF paths = <<>> THEN its
    ELSE LET path == Head(paths)
             skip == \/ ~exists(path, fs)
                     \/ path.ext \notin SUPPORTED_INPUT_EXTENSIONS
                     \/ \E i \in 1..Len(its) : its[i] = path
         IN  add_paths(IF skip THEN its ELSE Append(its, path), Tail(paths), fs)

\* ImageManager.add_paths: the list `added` it returns
RECURSIVE add_paths_added(_, _, _)
add_paths_added(its, paths, fs) ==
    IF paths = <<>> THEN <<>>
    ELSE LET rest == Tail(paths)
             after == add_paths(its, <<Head(paths)>>, fs)
         IN  IF after = its
             THEN add_paths_added(its, rest, fs)
             ELSE <<Head(paths)>> \o add_paths_added(after, rest, fs)

\* ImageManager.remove_index: list.pop(index), index counted from 1 here.
remove_index(its, index) ==
    [i \in 1..(Len(its) - 1) |-> IF i < index THEN its[i] ELSE its[i + 1]]

\* a remove_index that empties the thumbnail cache
remove_index_cache_emptying(cache, its, index) == {}

\* ImageManager.remove_index, line 63: the cache after the pop of the
\* removed item's path
remove_index_cache(cache, its, index) == cache \ {its[index]}

\* ImageManager.load_thumbnail: whether a thumbnail is returned, the cache
\* afterwards, and whether the file was read
load_thumbnail(path, cache, fs, bad) ==
    IF path \in cache
    THEN [pixmap |-> TRUE, cache |-> cache, read |-> FALSE]
    ELSE IF load_pixmap(path, fs, bad)
         THEN [pixmap |-> TRUE, cache |-> cache \cup {path}, read |-> TRUE]
         ELSE [pixmap |-> FALSE, cache |-> cache, read |-> TRUE]

\* the cache after load_thumbnail was called for each of `paths` in turn
\* (the loops of MainWindow._add_images and _refresh_image_list)
RECURSIVE load_thumbnails(_, _, _, _)
load_thumbnails(paths, cache, fs, bad) ==
    IF paths = <<>> THEN cache
    ELSE load_thumbnails(Tail(paths),
                         load_thumbnail(Head(paths), cache, fs, bad).cache,
                         fs, bad)

\* MainWindow._add_images: one row is appended for each added path that is
\* found among the items
add_images_rows(rows, added, its) ==
    rows \o SelectSeq(added, LAMBDA path : \E i \in 1..Len(its) : its[i] = path)

\* MainWindow._refresh_image_list: the rows after clear() and one
\* add_image_item per item
refresh_image_list(its) == its

\* a takeItem that takes the first row
takeItem_first(rows, row) == Tail(rows)

\* QListWidget.takeItem(row), row counted from 1 here
takeItem(rows, row) ==
    [i \in 1..(Len(rows) - 1) |-> IF i < row THEN rows[i] ELSE rows[i + 1]]

(***************************************************************************)
(* ExportSettings                                                          *)
(***************************************************************************)
NamingModes == {"keep", "prefix", "suffix"}
OutputFormats == {"png", "jpeg"}
NoDir == "None"

DefaultExportSettings ==
    [ output_format |-> "png", output_dir |-> NoDir, naming_mode |-> "suffix",
      custom_prefix |-> "wm_", custom_suffix |-> "_watermarked",
      prevent_overwrite |-> TRUE ]

\* The export settings a session can start from (SettingsStore.load).
StoredExportSettings ==
    { [DefaultExportSettings EXCEPT !.output_format = fmt, !.naming_mode = mode,
                                    !.output_dir = d, !.prevent_overwrite = b] :
        fmt \in OutputFormats, mode \in NamingModes, d \in Dirs \cup {NoDir},
        b \in BOOLEAN }

(***************************************************************************)
(* MainWindow._determine_output_path                                       *)
(***************************************************************************)
RECURSIVE first_free(_, _, _, _, _, _)
first_free(output_dir, stem, extension, target, counter, fs) ==
    IF exists(target, fs)
    THEN first_free(output_dir, stem, extension,
                    MkPath(output_dir, stem \o "_" \o IntToStr(counter), extension),
                    counter + 1, fs)
    ELSE target

\* a path chosen without looking at the files that exist
determine_output_path_unchecked(source, output_dir, es, fs) ==
    LET stem == CASE es.naming_mode = "prefix" -> es.custom_prefix \o source.stem
                  [] es.naming_mode = "suffix" -> source.stem \o es.custom_suffix
                  [] OTHER -> source.stem
        extension == IF es.output_format = "png" THEN ".png" ELSE ".jpg"
    IN  MkPath(output_dir, stem, extension)

\* A plausible slip: the collision counter started at 0.
determine_output_path_from_zero(source, output_dir, es, fs) ==
    LET stem == CASE es.naming_mode = "prefix" -> es.custom_prefix \o source.stem
                  [] es.naming_mode = "suffix" -> source.stem \o es.custom_suffix
                  [] OTHER -> source.stem
        extension == IF es.output_format = "png" THEN ".png" ELSE ".jpg"
    IN  first_free(output_dir, stem, extension,
                   MkPath(output_dir, stem, extension), 0, fs)

determine_output_path(source, output_dir, es, fs) ==
    LET stem == CASE es.naming_mode = "prefix" -> es.custom_prefix \o source.stem
                  [] es.naming_mode = "suffix" -> source.stem \o es.custom_suffix
                  [] OTHER -> source.stem
        extension == IF es.output_format = "png" THEN ".png" ELSE ".jpg"
    IN  first_free(output_dir, stem, extension,
                   MkPath(output_dir, stem, extension), 1, fs)

(***************************************************************************)
(* MainWindow._export_images.  The result is the record                    *)
(* [outcome, count, files, written]: how the run ended ("no_output_dir"    *)
(* and "config_error" are the two warnings, "done" the status message with *)
(* the count), the success count, the files that exist afterwards and the  *)
(* files the run wrote, in order.                                          *)
(***************************************************************************)
ExportStart(outcome, fs) ==
    [outcome |-> outcome, count |-> 0, files |-> fs, written |-> <<>>]

\* A plausible slip: an item that does not decode is counted all the same.
RECURSIVE export_loop_counting_skipped(_, _, _, _, _)
export_loop_counting_skipped(its, output_dir, es, bad, acc) ==
    IF its = <<>> THEN acc
    ELSE LET item == Head(its)
             result_path == determine_output_path(item, output_dir, es, acc.files)
         IN  IF ~load_pixmap(item, acc.files, bad)
             THEN export_loop_counting_skipped(Tail(its), output_dir, es, bad,
                      [acc EXCEPT !.count = @ + 1])
             ELSE export_loop_counting_skipped(Tail(its), output_dir, es, bad,
                      [acc EXCEPT !.files = @ \cup {FileId(result_path)},
                                  !.written = Append(@, FileId(result_path)),
                                  !.count = @ + 1])

\* The loop over the items (lines 313-338).
RECURSIVE export_loop(_, _, _, _, _)
export_loop(its, output_dir, es, bad, acc) ==
    IF its = <<>> THEN acc
    ELSE LET item == Head(its)
             result_path == determine_output_path(item, output_dir, es, acc.files)
         IN  IF ~load_pixmap(item, acc.files, bad)
             THEN export_loop(Tail(its), output_dir, es, bad, acc)
             ELSE export_loop(Tail(its), output_dir, es, bad,
                      [acc EXCEPT !.files = @ \cup {FileId(result_path)},
                                  !.written = Append(@, FileId(result_path)),
                                  !.count = @ + 1])

\* A plausible slip: the directory of each item checked as its turn comes,
\* inside the loop, so that the items before the offending one are written.
RECURSIVE export_loop_checking(_, _, _, _, _)
export_loop_checking(its, output_dir, es, bad, acc) ==
    IF its = <<>> THEN acc
    ELSE LET item == Head(its)
             result_path == determine_output_path(item, output_dir, es, acc.files)
         IN  IF es.prevent_overwrite /\ samefile(output_dir, item.dir)
             THEN [acc EXCEPT !.outcome = "config_error"]
             ELSE IF ~load_pixmap(item, acc.files, bad)
             THEN export_loop_checking(Tail(its), output_dir, es, bad, acc)
             ELSE export_loop_checking(Tail(its), output_dir, es, bad,
                      [acc EXCEPT !.files = @ \cup {FileId(result_path)},
                                  !.written = Append(@, FileId(result_path)),
                                  !.count = @ + 1])

export_images_checking_late(its, es, bad, fs) ==
    IF es.output_dir = NoDir
    THEN ExportStart("no_output_dir", fs)
    ELSE export_loop_checking(its, es.output_dir, es, bad, ExportStart("done", fs))

export_images(its, es, bad, fs) ==
    IF es.output_dir = NoDir
    THEN ExportStart("no_output_dir", fs)
    ELSE LET output_dir == es.output_dir
         IN  IF /\ es.prevent_overwrite
                /\ \E i \in 1..Len(its) : samefile(output_dir, its[i].dir)
             THEN ExportStart("config_error", fs)
             ELSE export_loop(its, output_dir, es, bad, ExportStart("done", fs))

(***************************************************************************)
(* MainWindow._resize_image                                                *)
(***************************************************************************)
ResizeModes == {"none", "width", "height", "percent"}

\* The operands x, n, d of the model for which the double x * (n / d) lies
\* just below the exact product, an integer, so that int() yields one less:
\* 100 * (29 / 100) is 28.999999999999996 and 200 * (29 / 100) is
\* 57.99999999999999.  On every other operand of the model int(x * (n / d))
\* is the integer quotient of x*n by d.
FloatBelow == { <<100, 29, 100>>, <<200, 29, 100>> }

\* int(x * (n / d)) in double arithmetic, x, n >= 0 and d > 0
int_mul_div(x, n, d) ==
    IF <<x, n, d>> \in FloatBelow THEN ((x * n) \div d) - 1 ELSE (x * n) \div d

\* QSize.scaled(s, Qt.KeepAspectRatio): the largest size of the aspect ratio
\* of `size` inside s, in integer arithmetic
QSize_scaled(size, s) ==
    IF size[1] = 0 \/ size[2] = 0 THEN s
    ELSE LET rw == (s[2] * size[1]) \div size[2]
         IN  IF rw <= s[1] THEN <<rw, s[2]>>
             ELSE <<s[1], (s[1] * size[2]) \div size[1]>>

\* The size of QImage.scaled(w, h, Qt.KeepAspectRatio, ...): a null image
\* (0 x 0) for an empty request, and at least 1 x 1 otherwise.
QImage_scaled(size, s) ==
    IF s[1] <= 0 \/ s[2] <= 0 THEN <<0, 0>>
    ELSE LET newSize == QSize_scaled(size, s)
         IN  <<Max(newSize[1], 1), Max(newSize[2], 1)>>

\* A plausible slip: the two max(1, ...) lines left out.
resize_image_unfloored(size, mode, value) ==
    IF mode = "none" \/ value <= 0
    THEN [target |-> size, size |-> size]
    ELSE LET width == size[1]
             height == size[2]
             t == CASE mode = "width" -> <<value, int_mul_div(height, value, width)>>
                    [] mode = "height" -> <<int_mul_div(width, value, height), value>>
                    [] mode = "percent" -> <<int_mul_div(width, value, 100),
                                             int_mul_div(height, value, 100)>>
         IN  [target |-> t, size |-> QImage_scaled(size, t)]

\* target: the width and height handed to image.scaled; size: the size of
\* the image returned.
resize_image(size, mode, value) ==
    IF mode = "none" \/ value <= 0
    THEN [target |-> size, size |-> size]
    ELSE LET width == size[1]
             height == size[2]
             t == CASE mode = "width" -> <<value, int_mul_div(height, value, width)>>
                    [] mode = "height" -> <<int_mul_div(width, value, height), value>>
                    [] mode = "percent" -> <<int_mul_div(width, value, 100),
                                             int_mul_div(height, value, 100)>>
             new_width == Max(1, t[1])
             new_height == Max(1, t[2])
         IN  [target |-> <<new_width, new_height>>,
              size |-> QImage_scaled(size, <<new_width, new_height>>)]

(***************************************************************************)
(* WatermarkSettings (watermark_settings.py) and the anchors (utils.py).   *)
(* A text is a sequence of characters.  Of a text descriptor the model     *)
(* keeps the text, the font size, the opacity, the colour and the shadow   *)
(* offset; of an image descriptor the path, the scale (a fraction) and the *)
(* opacity.                                                                *)
(***************************************************************************)
WatermarkAnchors ==
    { "top_left", "top_center", "top_right",
      "center_left", "center", "center_right",
      "bottom_left", "bottom_center", "bottom_right" }

anchor_to_position(anchor) ==
    CASE anchor = "top_left"      -> <<RInt(0), RInt(0)>>
      [] anchor = "top_center"    -> <<Rat(1, 2), RInt(0)>>
      [] anchor = "top_right"     -> <<RInt(1), RInt(0)>>
      [] anchor = "center_left"   -> <<RInt(0), Rat(1, 2)>>
      [] anchor = "center"        -> <<Rat(1, 2), Rat(1, 2)>>
      [] anchor = "center_right"  -> <<RInt(1), Rat(1, 2)>>
      [] anchor = "bottom_left"   -> <<RInt(0), RInt(1)>>
      [] anchor = "bottom_center" -> <<Rat(1, 2), RInt(1)>>
      [] anchor = "bottom_right"  -> <<RInt(1), RInt(1)>>

\* a table that puts the anchors on the edges of the image
position_map_edges(anchor) == anchor_to_position(anchor)

\* ControlsPanel._on_anchor_selected: position_map
position_map(anchor) ==
    CASE anchor = "top_left"      -> <<Rat(5, 100), Rat(5, 100)>>
      [] anchor = "top_center"    -> <<Rat(1, 2), Rat(5, 100)>>
      [] anchor = "top_right"     -> <<Rat(95, 100), Rat(5, 100)>>
      [] anchor = "center_left"   -> <<Rat(5, 100), Rat(1, 2)>>
      [] anchor = "center"        -> <<Rat(1, 2), Rat(1, 2)>>
      [] anchor = "center_right"  -> <<Rat(95, 100), Rat(1, 2)>>
      [] anchor = "bottom_left"   -> <<Rat(5, 100), Rat(95, 100)>>
      [] anchor = "bottom_center" -> <<Rat(1, 2), Rat(95, 100)>>
      [] anchor = "bottom_right"  -> <<Rat(95, 100), Rat(95, 100)>>

NoPath == "None"

DefaultWatermarkSettings ==
    [ watermark_type |-> "text",
      text_settings |-> [ text |-> <<"W", "a", "t", "e", "r", "m", "a", "r", "k">>,
                          font_size |-> 32, opacity |-> 80,
                          color |-> [ kind |-> "tuple",
                                      items |-> <<255, 255, 255, 255>> ],
                          shadow_offset |-> [ kind |-> "tuple",
                                              items |-> <<2, 2>> ] ],
      image_settings |-> [ image_path |-> NoPath, scale |-> Rat(25, 100),
                           opacity |-> 70 ],
      rotation |-> 0,
      layout |-> [ position |-> <<Rat(1, 2), Rat(1, 2)>>, anchor |-> "center" ] ]

(***************************************************************************)
(* The watermark image files: a path that is not a file, a file that does  *)
(* not decode, and a 40 x 20 logo.                                         *)
(***************************************************************************)
WatermarkPaths == {NoPath, "missing.png", "broken.png", "logo.png"}

path_exists(path) == path \in {"broken.png", "logo.png"}

\* QPixmap(str(path)): the size of the pixmap, <<0, 0>> for a null one
QPixmap_load(path) == IF path = "logo.png" THEN <<40, 20>> ELSE <<0, 0>>

(***************************************************************************)
(* WatermarkRenderer.  An overlay is [null, size, alpha, ink]: null for    *)
(* "no overlay" (None), the size of the pixmap, the alpha (0..255) of its  *)
(* inked pixels, and whether it has inked pixels at all.                   *)
(***************************************************************************)
TEXT_MARGIN == 16

NoOverlay == [null |-> TRUE, size |-> <<0, 0>>, alpha |-> 0, ink |-> FALSE]

IsSpace(c) == c = " "

\* str.strip
RECURSIVE lstrip(_)
lstrip(text) ==
    IF text # <<>> /\ IsSpace(Head(text)) THEN lstrip(Tail(text)) ELSE text

RECURSIVE rstrip(_)
rstrip(text) ==
    IF text # <<>> /\ IsSpace(text[Len(text)])
    THEN rstrip(SubSeq(text, 1, Len(text) - 1))
    ELSE text

strip(text) == rstrip(lstrip(text))

\* QFontMetricsF: the width of the tight bounding box of the text (its inked
\* part) and ascent + descent, for the font of the model.
tight_width(text, font_size) == Len(strip(text)) * (font_size \div 2)
line_height(font_size) == font_size + font_size \div 4

\* a rotation that keeps the size the pixmap had
transformed_keeping_size(size, rotation) == size

\* pixmap.transformed(QTransform().rotate(rotation)): the bounding box of
\* the rotated pixmap, for the quarter turns of the model
transformed(size, rotation) ==
    IF rotation % 180 = 0 THEN size ELSE <<size[2], size[1]>>

\* A plausible slip: the opacity not applied to the painter.
text_alpha_opaque(opacity) == 255

\* painter.setOpacity(settings.opacity / 100.0): the alpha of what is painted
text_alpha(opacity) == (255 * opacity) \div 100

\* A plausible slip: `if not settings.text` in place of the strip() test.
build_text_watermark_unstripped(base_size, settings, rotation) ==
    IF settings.text = <<>> THEN NoOverlay
    ELSE LET width == Max(tight_width(settings.text, settings.font_size)
                              + TEXT_MARGIN * 2, 10)
             height == Max(line_height(settings.font_size) + TEXT_MARGIN * 2, 10)
             pixmap == <<width, height>>
         IN  [ null |-> FALSE,
               size |-> IF rotation # 0 THEN transformed(pixmap, rotation) ELSE pixmap,
               alpha |-> text_alpha(settings.opacity),
               ink |-> strip(settings.text) # <<>> ]

\* WatermarkRenderer._build_text_watermark
build_text_watermark(base_size, settings, rotation) ==
    IF strip(settings.text) = <<>> THEN NoOverlay
    ELSE LET width == Max(tight_width(settings.text, settings.font_size)
                              + TEXT_MARGIN * 2, 10)
             height == Max(line_height(settings.font_size) + TEXT_MARGIN * 2, 10)
             pixmap == <<width, height>>
         IN  [ null |-> FALSE,
               size |-> IF rotation # 0 THEN transformed(pixmap, rotation) ELSE pixmap,
               alpha |-> text_alpha(settings.opacity),
               ink |-> TRUE ]

\* pixmap.scaledToWidth(w, Qt.SmoothTransformation): the height is
\* int(h * w / width + 0.9999)
scaledToWidth(size, w) == <<w, Ceil(Rat(size[2] * w, size[1]))>>

\* WatermarkRenderer._build_image_watermark
build_image_watermark(base_size, settings, rotation) ==
    IF settings.image_path = NoPath THEN NoOverlay
    ELSE IF ~path_exists(settings.image_path) THEN NoOverlay
    ELSE LET pixmap == QPixmap_load(settings.image_path)
         IN  IF pixmap = <<0, 0>> THEN NoOverlay
             ELSE LET target_width ==
                          Max(1, int_mul_div(base_size[1], settings.scale[1],
                                             settings.scale[2]))
                      scaled == scaledToWidth(pixmap, target_width)
                  IN  [ null |-> FALSE,
                        size |-> IF rotation # 0 THEN transformed(scaled, rotation)
                                 ELSE scaled,
                        alpha |-> IF settings.opacity < 100
                                  THEN int_mul_div(255, settings.opacity, 100)
                                  ELSE 255,
                        ink |-> TRUE ]

\* WatermarkRenderer.build_watermark
build_watermark(base_size, settings) ==
    IF settings.watermark_type = "text"
    THEN build_text_watermark(base_size, settings.text_settings, settings.rotation)
    ELSE build_image_watermark(base_size, settings.image_settings, settings.rotation)

(***************************************************************************)
(* An image is [size, painted]: painted holds what has been drawn on the   *)
(* decoded pixels, one [at, size, alpha] per drawPixmap that changed a     *)
(* pixel.  Two images of the same source are pixel-identical exactly when  *)
(* they are equal.                                                         *)
(***************************************************************************)
Image(size) == [size |-> size, painted |-> {}]

\* painter.drawPixmap(draw_point, watermark) on `image`: source-over
\* blending changes a pixel only where inked pixels of alpha > 0 fall
\* inside the image.
drawPixmap(image, draw_point, overlay) ==
    IF /\ overlay.ink
       /\ overlay.alpha > 0
       /\ RLt(draw_point[1], RInt(image.size[1]))
       /\ RLt(draw_point[2], RInt(image.size[2]))
       /\ RLt(RInt(0), RAdd(draw_point[1], RInt(overlay.size[1])))
       /\ RLt(RInt(0), RAdd(draw_point[2], RInt(overlay.size[2])))
    THEN [image EXCEPT !.painted =
              @ \cup {[at |-> draw_point, size |-> overlay.size, alpha |-> overlay.alpha]}]
    ELSE image

NoPoint == <<RInt(0), RInt(0)>>

\* WatermarkRenderer.apply_watermark; result is the image returned, base the
\* image passed in as the call leaves it, and raised whether the call ended
\* in an exception (no statement of it raises on the inputs of the model).
apply_watermark(base_image, settings, position, anchor_ratio) ==
    LET result == base_image
        render_result == build_watermark(base_image.size, settings)
    IN  IF render_result.null
        THEN [ result |-> result, base |-> base_image, overlay |-> render_result,
               draw_point |-> NoPoint, raised |-> FALSE ]
        ELSE LET watermark == render_result
                 offset_x == RMul(RInt(watermark.size[1]), anchor_ratio[1])
                 offset_y == RMul(RInt(watermark.size[2]), anchor_ratio[2])
                 draw_point == <<RSub(position[1], offset_x), RSub(position[2], offset_y)>>
             IN  [ result |-> drawPixmap(result, draw_point, watermark),
                   base |-> base_image, overlay |-> watermark,
                   draw_point |-> draw_point, raised |-> FALSE ]

\* A plausible slip: the anchor point computed on the size of the image
\* before the resize.
export_item_original_size(size, rs, settings) ==
    LET image == Image(resize_image(size, rs.resize_mode, rs.resize_value).size)
        layout == settings.layout
        position == <<RMul(layout.position[1], RInt(size[1])),
                      RMul(layout.position[2], RInt(size[2]))>>
        anchor == anchor_to_position(layout.anchor)
    IN  [image |-> image] @@ apply_watermark(image, settings, position, anchor)

\* MainWindow._export_images, lines 321-331: one decoded item of `size`
export_item(size, rs, settings) ==
    LET image == Image(resize_image(size, rs.resize_mode, rs.resize_value).size)
        layout == settings.layout
        position == <<RMul(layout.position[1], RInt(image.size[1])),
                      RMul(layout.position[2], RInt(image.size[2]))>>
        anchor == anchor_to_position(layout.anchor)
    IN  [image |-> image] @@ apply_watermark(image, settings, position, anchor)

(***************************************************************************)
(* PreviewWidget (widgets/preview_widget.py).  A point is a pair of        *)
(* fractions; a rectangle is [x, y, width, height] of fractions.  The app, *)
(* the controls and the preview hold one and the same WatermarkLayout      *)
(* object (dataclasses.replace copies the settings but not the layout), so *)
(* PreviewWidget._layout is watermark_settings.layout.                     *)
(***************************************************************************)
NoPixmap == <<0, 0>>

\* QRectF()
NoRect == [x |-> RInt(0), y |-> RInt(0), width |-> RInt(0), height |-> RInt(0)]

\* utils.clamp
clamp(value, min_value, max_value) == RMax(min_value, RMin(max_value, value))

\* PreviewWidget._regenerate_watermark
regenerate_watermark(base, settings) ==
    IF base = NoPixmap THEN NoOverlay ELSE build_watermark(base, settings)

\* PreviewWidget._update_scaled_pixmap: the scale factor and the draw
\* rectangle it leaves (a pixmap that is not null has no zero dimension)
update_scaled_pixmap(base, widget) ==
    IF base = NoPixmap
    THEN [scale_factor |-> RInt(1), draw_rect |-> NoRect]
    ELSE LET target_width == Max(1, widget[1])
             target_height == Max(1, widget[2])
             scale == RMin(Rat(target_width, base[1]), Rat(target_height, base[2]))
             scaled_width == Max(1, int_mul_div(base[1], scale[1], scale[2]))
             scaled_height == Max(1, int_mul_div(base[2], scale[1], scale[2]))
             scaled_pixmap == QImage_scaled(base, <<scaled_width, scaled_height>>)
         IN  [ scale_factor |-> scale,
               draw_rect |-> [ x |-> Rat(target_width - scaled_pixmap[1], 2),
                               y |-> Rat(target_height - scaled_pixmap[2], 2),
                               width |-> RInt(scaled_pixmap[1]),
                               height |-> RInt(scaled_pixmap[2]) ] ]

\* a rectangle that is always centred on the layout position, whatever
\* the anchor
watermark_rect_base_centred(base, watermark, layout) ==
    IF base = NoPixmap \/ watermark.null
    THEN [null |-> TRUE] @@ NoRect
    ELSE LET pos_x == RMul(layout.position[1], RInt(base[1]))
             pos_y == RMul(layout.position[2], RInt(base[2]))
             wm_width == RInt(watermark.size[1])
             wm_height == RInt(watermark.size[2])
         IN  [ null |-> FALSE,
               x |-> RSub(pos_x, RMul(Rat(1, 2), wm_width)),
               y |-> RSub(pos_y, RMul(Rat(1, 2), wm_height)),
               width |-> wm_width, height |-> wm_height ]

\* PreviewWidget._watermark_rect_base; null stands for None
watermark_rect_base(base, watermark, layout) ==
    IF base = NoPixmap \/ watermark.null
    THEN [null |-> TRUE] @@ NoRect
    ELSE LET anchor_ratio == anchor_to_position(layout.anchor)
             pos_x == RMul(layout.position[1], RInt(base[1]))
             pos_y == RMul(layout.position[2], RInt(base[2]))
             wm_width == RInt(watermark.size[1])
             wm_height == RInt(watermark.size[2])
         IN  [ null |-> FALSE,
               x |-> RSub(pos_x, RMul(anchor_ratio[1], wm_width)),
               y |-> RSub(pos_y, RMul(anchor_ratio[2], wm_height)),
               width |-> wm_width, height |-> wm_height ]

\* PreviewWidget._watermark_rect_widget
watermark_rect_widget(base, watermark, layout, scale, rect) ==
    LET base_rect == watermark_rect_base(base, watermark, layout)
    IN  IF base_rect.null THEN base_rect
        ELSE [ null |-> FALSE,
               x |-> RAdd(rect.x, RMul(base_rect.x, scale)),
               y |-> RAdd(rect.y, RMul(base_rect.y, scale)),
               width |-> RMul(base_rect.width, scale),
               height |-> RMul(base_rect.height, scale) ]

\* PreviewWidget._widget_to_base
widget_to_base(point, scale, rect) ==
    << RDiv(RSub(point[1], rect.x), scale), RDiv(RSub(point[2], rect.y), scale) >>

\* a hit test that accepts every point
contains_anywhere(rect, point) ==
    /\ rect.width # RInt(0)
    /\ rect.height # RInt(0)

\* QRectF.contains(QPointF): the edges belong to the rectangle
contains(rect, point) ==
    /\ rect.width # RInt(0)
    /\ rect.height # RInt(0)
    /\ RLe(rect.x, point[1])
    /\ RLe(point[1], RAdd(rect.x, rect.width))
    /\ RLe(rect.y, point[2])
    /\ RLe(point[2], RAdd(rect.y, rect.height))

\* QRectF.center
center(rect) ==
    << RAdd(rect.x, RDiv(rect.width, RInt(2))),
       RAdd(rect.y, RDiv(rect.height, RInt(2))) >>

\* a move that puts the overlay's centre under the pointer
drag_position_centring(point, base, watermark, layout, scale, rect, delta) ==
    LET base_rect == watermark_rect_base(base, watermark, layout)
        pointer_base == widget_to_base(point, scale, rect)
        half_w == RDiv(base_rect.width, RInt(2))
        half_h == RDiv(base_rect.height, RInt(2))
        base_width == RInt(base[1])
        base_height == RInt(base[2])
        new_center_x == clamp(pointer_base[1], half_w, RSub(base_width, half_w))
        new_center_y == clamp(pointer_base[2], half_h, RSub(base_height, half_h))
    IN  << RDiv(new_center_x, base_width), RDiv(new_center_y, base_height) >>

\* PreviewWidget.mouseMoveEvent, lines 159-172: the normalized position it
\* emits for the pointer at `point`
drag_position(point, base, watermark, layout, scale, rect, delta) ==
    LET base_rect == watermark_rect_base(base, watermark, layout)
        pointer_base == widget_to_base(point, scale, rect)
        half_w == RDiv(base_rect.width, RInt(2))
        half_h == RDiv(base_rect.height, RInt(2))
        base_width == RInt(base[1])
        base_height == RInt(base[2])
        new_center_x == clamp(RSub(pointer_base[1], delta[1]), half_w,
                              RSub(base_width, half_w))
        new_center_y == clamp(RSub(pointer_base[2], delta[2]), half_h,
                              RSub(base_height, half_h))
    IN  << RDiv(new_center_x, base_width), RDiv(new_center_y, base_height) >>

\* A plausible slip: the handler marks the anchor and drops the position.
on_preview_position_changed_anchor_only(settings, x, y) ==
    [settings EXCEPT !.layout.anchor = "center"]

\* MainWindow._on_preview_position_changed
on_preview_position_changed(settings, x, y) ==
    [settings EXCEPT !.layout = [position |-> <<x, y>>, anchor |-> "center"]]

\* MainWindow._on_preview_anchor_changed
on_preview_anchor_changed(settings, anchor) ==
    [settings EXCEPT !.layout.anchor = anchor]

(***************************************************************************)
(* Serialization (watermark_settings.py, export_settings.py).  A Python    *)
(* tuple or list is [kind, items] with kind "tuple" or "list", and a JSON  *)
(* array is kind "array"; an enum member is the string that is its value   *)
(* (WatermarkType, WatermarkAnchor and ExportNamingMode are str enums, so  *)
(* a member and its value compare equal).  Numbers keep their value        *)
(* through float(), int() and JSON.                                        *)
(***************************************************************************)
\* TextWatermarkSettings.to_dict: dataclasses.asdict copies a tuple as a tuple
TextWatermarkSettings_to_dict(text_settings) == text_settings

\* TextWatermarkSettings.from_dict: cls(**data) keeps each value as it is
TextWatermarkSettings_from_dict(data) ==
    [ text |-> data.text, font_size |-> data.font_size, opacity |-> data.opacity,
      color |-> data.color, shadow_offset |-> data.shadow_offset ]

\* ImageWatermarkSettings.to_dict
ImageWatermarkSettings_to_dict(image_settings) == image_settings

\* ImageWatermarkSettings.from_dict
ImageWatermarkSettings_from_dict(data) ==
    [ image_path |-> data.image_path, scale |-> data.scale,
      opacity |-> data.opacity ]

\* WatermarkLayout.to_dict
WatermarkLayout_to_dict(layout) ==
    [ position |-> [kind |-> "list", items |-> layout.position],
      anchor |-> layout.anchor ]

\* WatermarkLayout.from_dict: a list becomes a tuple of floats, anything
\* else is taken as it is
WatermarkLayout_from_dict(data) ==
    [ position |-> IF data.position.kind = "list"
                   THEN <<data.position.items[1], data.position.items[2]>>
                   ELSE data.position.items,
      anchor |-> data.anchor ]

\* a TextWatermarkSettings.from_dict that makes tuples of its sequences
TextWatermarkSettings_from_dict_tuples(data) ==
    [ text |-> data.text, font_size |-> data.font_size, opacity |-> data.opacity,
      color |-> [kind |-> "tuple", items |-> data.color.items],
      shadow_offset |-> [kind |-> "tuple", items |-> data.shadow_offset.items] ]

\* WatermarkSettings.to_dict
WatermarkSettings_to_dict(settings) ==
    [ watermark_type |-> settings.watermark_type,
      text_settings |-> TextWatermarkSettings_to_dict(settings.text_settings),
      image_settings |-> ImageWatermarkSettings_to_dict(settings.image_settings),
      rotation |-> settings.rotation,
      layout |-> WatermarkLayout_to_dict(settings.layout) ]

\* WatermarkSettings.from_dict
WatermarkSettings_from_dict(data) ==
    [ watermark_type |-> data.watermark_type,
      text_settings |-> TextWatermarkSettings_from_dict(data.text_settings),
      image_settings |-> ImageWatermarkSettings_from_dict(data.image_settings),
      rotation |-> data.rotation,
      layout |-> WatermarkLayout_from_dict(data.layout) ]

\* ExportSettings.to_dict
ExportSettings_to_dict(settings) ==
    [ output_format |-> settings.output_format,
      output_dir |-> settings.output_dir,
      naming_mode |-> settings.naming_mode,
      custom_prefix |-> settings.custom_prefix,
      custom_suffix |-> settings.custom_suffix,
      prevent_overwrite |-> settings.prevent_overwrite ]

\* ExportSettings.from_dict
ExportSettings_from_dict(data) ==
    [ output_format |-> data.output_format,
      output_dir |-> data.output_dir,
      naming_mode |-> data.naming_mode,
      custom_prefix |-> data.custom_prefix,
      custom_suffix |-> data.custom_suffix,
      prevent_overwrite |-> data.prevent_overwrite ]

\* json: a tuple or a list is written as an array
json_array(sequence) == [kind |-> "array", items |-> sequence.items]

\* json: an array is read as a list
json_list(array) == [kind |-> "list", items |-> array.items]

\* json.dumps of the payload {"name", "watermark", "export"}
json_dumps(payload) ==
    [payload EXCEPT
        !.watermark.text_settings.color = json_array(@),
        !.watermark.text_settings.shadow_offset = json_array(@),
        !.watermark.layout.position = json_array(@)]

\* json.loads of a document written by json_dumps
json_loads(document) ==
    [document EXCEPT
        !.watermark.text_settings.color = json_list(@),
        !.watermark.text_settings.shadow_offset = json_list(@),
        !.watermark.layout.position = json_list(@)]

\* SettingsStore.save: the text written to app_state.json
SettingsStore_save(watermark, export) ==
    json_dumps([ name |-> <<>>,
                 watermark |-> WatermarkSettings_to_dict(watermark),
                 export |-> ExportSettings_to_dict(export) ])

\* SettingsStore.load of a state file that exists and parses
SettingsStore_load(document) ==
    LET raw == json_loads(document)
    IN  [ watermark |-> WatermarkSettings_from_dict(raw.watermark),
          export |-> ExportSettings_from_dict(raw.export) ]

(***************************************************************************)
(* TemplateManager (template_manager.py).  A name is a sequence of         *)
(* characters; the templates directory is a function from the stem of each *)
(* file <stem>.json to the document in it.                                 *)
(***************************************************************************)
TEMPLATE_SUFFIX == <<".", "j", "s", "o", "n">>

\* the characters of the model with their code points
Code(c) ==
    CASE c = " " -> 32 [] c = "-" -> 45 [] c = "." -> 46 [] c = "?" -> 63
      [] c = "_" -> 95 [] c = "a" -> 97 [] c = "b" -> 98 [] c = "j" -> 106
      [] c = "n" -> 110 [] c = "o" -> 111 [] c = "s" -> 115

\* INVALID_CHARS_RE = [^A-Za-z0-9_-]+ , on the characters of the model
IsValidChar(c) == c \in {"-", "_", "a", "b", "j", "n", "o", "s"}

\* INVALID_CHARS_RE.sub("_", cleaned): each run of invalid characters
\* becomes one "_"
RECURSIVE sub_invalid(_, _)
sub_invalid(cleaned, in_run) ==
    IF cleaned = <<>> THEN <<>>
    ELSE IF IsValidChar(Head(cleaned))
         THEN <<Head(cleaned)>> \o sub_invalid(Tail(cleaned), FALSE)
         ELSE (IF in_run THEN <<>> ELSE <<"_">>) \o sub_invalid(Tail(cleaned), TRUE)

\* TemplateManager._sanitize_name; <<>> stands for the ValueError
sanitize_name(name) == sub_invalid(strip(name), FALSE)

\* str.__lt__: comparison by code points, a proper prefix first
RECURSIVE str_lt(_, _)
str_lt(s, t) ==
    IF t = <<>> THEN FALSE
    ELSE IF s = <<>> THEN TRUE
    ELSE IF Head(s) # Head(t) THEN Code(Head(s)) < Code(Head(t))
    ELSE str_lt(Tail(s), Tail(t))

EmptyDir == [stem \in {} |-> <<>>]

\* TemplateManager.save_template: the directory afterwards
save_template(dir, name, watermark, export) ==
    LET sanitized == sanitize_name(name)
        document == json_dumps([ name |-> name,
                                 watermark |-> WatermarkSettings_to_dict(watermark),
                                 export |-> ExportSettings_to_dict(export) ])
    IN  [stem \in DOMAIN dir \cup {sanitized} |->
            IF stem = sanitized THEN document ELSE dir[stem]]

\* a TemplateManager.load_template that returns the default settings for a
\* template that does not exist
load_template_defaulting(dir, name) ==
    IF strip(name) = <<>>
    THEN [ outcome |-> "ValueError", watermark |-> DefaultWatermarkSettings,
           export |-> DefaultExportSettings ]
    ELSE IF sanitize_name(name) \notin DOMAIN dir
    THEN [ outcome |-> "loaded", watermark |-> DefaultWatermarkSettings,
           export |-> DefaultExportSettings ]
    ELSE LET raw == json_loads(dir[sanitize_name(name)])
         IN  [ outcome |-> "loaded",
               watermark |-> WatermarkSettings_from_dict(raw.watermark),
               export |-> ExportSettings_from_dict(raw.export) ]

\* TemplateManager.load_template: what it raises or returns; watermark and
\* export mean nothing unless the outcome is "loaded"
load_template(dir, name) ==
    IF strip(name) = <<>>
    THEN [ outcome |-> "ValueError", watermark |-> DefaultWatermarkSettings,
           export |-> DefaultExportSettings ]
    ELSE IF sanitize_name(name) \notin DOMAIN dir
    THEN [ outcome |-> "FileNotFoundError", watermark |-> DefaultWatermarkSettings,
           export |-> DefaultExportSettings ]
    ELSE LET raw == json_loads(dir[sanitize_name(name)])
         IN  [ outcome |-> "loaded",
               watermark |-> WatermarkSettings_from_dict(raw.watermark),
               export |-> ExportSettings_from_dict(raw.export) ]

\* TemplateManager.delete_template: the directory afterwards
delete_template(dir, name) ==
    [stem \in DOMAIN dir \ {sanitize_name(name)} |-> dir[stem]]

\* sorted(templates_dir.glob("*.json")): the paths of one directory are
\* ordered by their file names
path_lt(stem1, stem2) == str_lt(stem1 \o TEMPLATE_SUFFIX, stem2 \o TEMPLATE_SUFFIX)

\* TemplateManager.list_templates: the stems of the sorted paths
list_templates(dir) ==
    CHOOSE listed \in [1..Cardinality(DOMAIN dir) -> DOMAIN dir] :
        \A i, j \in 1..Cardinality(DOMAIN dir) :
            i < j => path_lt(listed[i], listed[j])

(***************************************************************************)
(* ControlsPanel: the widgets and their change handlers.  `panel` is       *)
(* [w, e, ui]: the panel's _watermark_settings and _export_settings and    *)
(* the values its widgets show.  A setter of a widget emits the widget's   *)
(* change signal only when the value changes, and the handler connected to *)
(* it re-reads every widget of its group.                                  *)
(***************************************************************************)
\* the widgets as ControlsPanel.__init__ leaves them: _build_ui, then
\* _apply_settings_to_ui with the default settings
ConstructedWidgets ==
    [ text_input |-> DefaultWatermarkSettings.text_settings.text,
      font_size_spin |-> 32, opacity_slider |-> 80,
      image_path_edit |-> NoPath, image_scale_slider |-> 25,
      image_opacity_slider |-> 70,
      format_combo |-> "png", naming_group |-> "suffix",
      prefix_edit |-> "wm_", suffix_edit |-> "_watermarked" ]

\* int(scale * 100)
ScalePercent(scale) == (scale[1] * 100) \div scale[2]

\* ControlsPanel._on_text_settings_changed
on_text_settings_changed(panel) ==
    [panel EXCEPT !.w.text_settings =
        [@ EXCEPT !.text = panel.ui.text_input,
                  !.font_size = panel.ui.font_size_spin,
                  !.opacity = panel.ui.opacity_slider]]

\* ControlsPanel._on_image_settings_changed (an empty line edit is NoPath)
on_image_settings_changed(panel) ==
    [panel EXCEPT !.w.image_settings =
        [ image_path |-> panel.ui.image_path_edit,
          scale |-> Rat(panel.ui.image_scale_slider, 100),
          opacity |-> panel.ui.image_opacity_slider ]]

\* ControlsPanel._on_export_changed
on_export_changed(panel) ==
    [panel EXCEPT !.e =
        [@ EXCEPT !.output_format = panel.ui.format_combo,
                  !.naming_mode = panel.ui.naming_group,
                  !.custom_prefix = panel.ui.prefix_edit,
                  !.custom_suffix = panel.ui.suffix_edit]]

\* text_input.setText
set_text_input(panel, text) ==
    IF text = panel.ui.text_input THEN panel
    ELSE on_text_settings_changed([panel EXCEPT !.ui.text_input = text])

\* font_size_spin.setValue
set_font_size_spin(panel, value) ==
    IF value = panel.ui.font_size_spin THEN panel
    ELSE on_text_settings_changed([panel EXCEPT !.ui.font_size_spin = value])

\* opacity_slider.setValue
set_opacity_slider(panel, value) ==
    IF value = panel.ui.opacity_slider THEN panel
    ELSE on_text_settings_changed([panel EXCEPT !.ui.opacity_slider = value])

\* image_path_edit.setText
set_image_path_edit(panel, path) ==
    IF path = panel.ui.image_path_edit THEN panel
    ELSE on_image_settings_changed([panel EXCEPT !.ui.image_path_edit = path])

\* image_scale_slider.setValue
set_image_scale_slider(panel, value) ==
    IF value = panel.ui.image_scale_slider THEN panel
    ELSE on_image_settings_changed([panel EXCEPT !.ui.image_scale_slider = value])

\* image_opacity_slider.setValue
set_image_opacity_slider(panel, value) ==
    IF value = panel.ui.image_opacity_slider THEN panel
    ELSE on_image_settings_changed(
             [panel EXCEPT !.ui.image_opacity_slider = value])

\* format_combo.setCurrentText
set_format_combo(panel, text) ==
    IF text = panel.ui.format_combo THEN panel
    ELSE on_export_changed([panel EXCEPT !.ui.format_combo = text])

\* naming_keep_radio / naming_prefix_radio / naming_suffix_radio.setChecked(True)
set_naming_group(panel, mode) ==
    IF mode = panel.ui.naming_group THEN panel
    ELSE on_export_changed([panel EXCEPT !.ui.naming_group = mode])

\* prefix_edit.setText
set_prefix_edit(panel, text) ==
    IF text = panel.ui.prefix_edit THEN panel
    ELSE on_export_changed([panel EXCEPT !.ui.prefix_edit = text])

\* suffix_edit.setText
set_suffix_edit(panel, text) ==
    IF text = panel.ui.suffix_edit THEN panel
    ELSE on_export_changed([panel EXCEPT !.ui.suffix_edit = text])

\* ControlsPanel._apply_settings_to_ui: the setters in the order of the
\* code, each reading the settings as the handlers before it left them.
\* The type buttons and the rotation widgets write back the value they are
\* given, and output_dir_edit has no change handler.
apply_settings_to_ui(panel) ==
    LET p1 == set_text_input(panel, panel.w.text_settings.text)
        p2 == set_font_size_spin(p1, p1.w.text_settings.font_size)
        p3 == set_opacity_slider(p2, p2.w.text_settings.opacity)
        p4 == IF p3.w.image_settings.image_path # NoPath
              THEN set_image_path_edit(p3, p3.w.image_settings.image_path)
              ELSE p3
        p5 == set_image_scale_slider(p4, ScalePercent(p4.w.image_settings.scale))
        p6 == set_image_opacity_slider(p5, p5.w.image_settings.opacity)
        p7 == set_format_combo(p6, p6.e.output_format)
        p8 == set_naming_group(p7, p7.e.naming_mode)
        p9 == set_prefix_edit(p8, p8.e.custom_prefix)
    IN  set_suffix_edit(p9, p9.e.custom_suffix)

\* ControlsPanel.set_settings
set_settings(watermark, export, ui) ==
    apply_settings_to_ui([w |-> watermark, e |-> export, ui |-> ui])

(***************************************************************************)
(* The parts of the state at rest: each specification below moves one part *)
(* of the state and holds the others at these values.                      *)
(***************************************************************************)
NoExport ==
    [outcome |-> "none", count |-> 0, written |-> <<>>, batch |-> <<>>,
     settings |-> DefaultExportSettings, before |-> {}, after |-> {}]

\* no change of the image list was made by the step
NoAdd == [op |-> "none", paths |-> <<>>, added |-> <<>>]

ExportAtRest ==
    /\ last_export = NoExport
    /\ last_add = NoAdd
    /\ items = <<>>
    /\ thumbnail_cache = {}
    /\ image_list = <<>>
    /\ files = {}
    /\ corrupt = {}
    /\ export_settings = DefaultExportSettings

NoResize == [target |-> <<0, 0>>, size |-> <<0, 0>>, done |-> FALSE]

ResizeAtRest ==
    /\ src_size = <<1, 1>>
    /\ resize_settings = [resize_mode |-> "none", resize_value |-> 0]
    /\ resized = NoResize

NoComposed ==
    [ done |-> FALSE, image |-> Image(<<0, 0>>), result |-> Image(<<0, 0>>),
      base |-> Image(<<0, 0>>), overlay |-> NoOverlay, draw_point |-> NoPoint,
      raised |-> FALSE ]

RenderAtRest ==
    /\ watermark_settings = DefaultWatermarkSettings
    /\ composed = NoComposed

NoMove ==
    [ handled |-> FALSE, point |-> <<0, 0>>, pointer_base |-> NoPoint,
      position |-> NoPoint, base |-> NoPixmap, overlay |-> <<0, 0>>,
      delta |-> NoPoint,
      before |-> [position |-> NoPoint, anchor |-> "center"] ]

MinimumSize == <<480, 360>>

\* Qt.LeftButton and another button
Buttons == {"left", "right"}

NoEvent ==
    [ kind |-> "none", anchor |-> "center", point |-> <<0, 0>>,
      button |-> "left", after_move |-> FALSE, was_dragging |-> FALSE ]

PreviewAtRest ==
    /\ base_pixmap = NoPixmap
    /\ watermark_pixmap = NoOverlay
    /\ widget_size = MinimumSize
    /\ scale_factor = RInt(1)
    /\ draw_rect = NoRect
    /\ dragging = FALSE
    /\ drag_delta = NoPoint
    /\ last_move = NoMove
    /\ last_event = NoEvent
    /\ events = 0

\* nothing was done with the stores by the step
NoStore ==
    [ op |-> "none", name |-> <<>>, outcome |-> "none",
      watermark |-> DefaultWatermarkSettings, export |-> DefaultExportSettings ]

StoreAtRest ==
    /\ templates = EmptyDir
    /\ template_names = <<>>
    /\ state_file = [ exists |-> FALSE,
                      document |-> SettingsStore_save(DefaultWatermarkSettings,
                                                      DefaultExportSettings) ]
    /\ running = TRUE
    /\ widgets = ConstructedWidgets
    /\ last_store = NoStore
    /\ store_ops = 0

\* one more event, within the bound of the model
Event == events < MaxEvents /\ events' = events + 1

\* the event `kind` is the step being taken
Happens(kind, anchor, point, button) ==
    last_event' = [ kind |-> kind, anchor |-> anchor, point |-> point,
                    button |-> button, after_move |-> last_move.handled,
                    was_dragging |-> dragging ]

\* MainWindow._on_watermark_changed: the settings are stored and the preview
\* rebuilds its overlay (PreviewWidget.set_settings)
on_watermark_changed(settings) ==
    /\ Event
    /\ watermark_settings' = settings
    /\ watermark_pixmap' = regenerate_watermark(base_pixmap, settings)
    /\ last_move' = NoMove
    /\ UNCHANGED <<base_pixmap, widget_size, scale_factor, draw_rect,
                   dragging, drag_delta>>

OutsideExport == UNCHANGED <<resizeVars, renderVars, previewVars, storeVars>>

(***************************************************************************)
(* SpecExport: the image list, the export settings and the batch export.   *)
(* last_export describes the step just taken: it is the run of             *)
(* _export_images when the step was an export, and NoExport otherwise.     *)
(***************************************************************************)
InitExport ==
    /\ files = { FileId(p) : p \in SourcePaths }
    /\ corrupt \in SUBSET { FileId(MkPath("A", "a", ".jpg")),
                            FileId(MkPath("B", "a", ".png")) }
    /\ items = <<>>
    /\ thumbnail_cache = {}
    /\ image_list = <<>>
    \* SettingsStore.load: the defaults, or what an earlier session stored
    /\ export_settings \in StoredExportSettings
    /\ last_export = NoExport
    /\ last_add = NoAdd
    /\ ResizeAtRest
    /\ RenderAtRest
    /\ PreviewAtRest
    /\ StoreAtRest

\* MainWindow._add_images (the import dialog, dropped files)
AddImages ==
    \E p \in SourcePaths :
        /\ Len(add_paths(items, <<p>>, files)) <= MaxItems
        /\ items' = add_paths(items, <<p>>, files)
        /\ image_list' =
               add_images_rows(image_list, add_paths_added(items, <<p>>, files),
                               items')
        /\ thumbnail_cache' =
               load_thumbnails(add_paths_added(items, <<p>>, files),
                               thumbnail_cache, files, corrupt)
        /\ last_export' = NoExport
        /\ last_add' = NoAdd
        /\ UNCHANGED <<files, corrupt, export_settings>>
        /\ OutsideExport

\* MainWindow._remove_selected_image
RemoveSelectedImage ==
    \E row \in 1..Len(image_list) :
        /\ row <= Len(items)
        /\ items' = remove_index(items, row)
        /\ thumbnail_cache' = remove_index_cache(thumbnail_cache, items, row)
        /\ image_list' = takeItem(image_list, row)
        /\ last_export' = NoExport
        /\ last_add' = NoAdd
        /\ UNCHANGED <<files, corrupt, export_settings>>
        /\ OutsideExport

\* MainWindow._clear_images
ClearImages ==
    /\ items # <<>>
    /\ items' = <<>>
    /\ thumbnail_cache' = {}
    /\ image_list' = <<>>
    /\ last_export' = NoExport
    /\ last_add' = NoAdd
    /\ UNCHANGED <<files, corrupt, export_settings>>
    /\ OutsideExport

\* MainWindow._select_output_directory -> ControlsPanel.set_output_directory
SelectOutputDirectory ==
    \E d \in Dirs :
        /\ export_settings' = [export_settings EXCEPT !.output_dir = d]
        /\ export_settings' # export_settings
        /\ last_export' = NoExport
        /\ last_add' = NoAdd
        /\ UNCHANGED <<files, corrupt, items, thumbnail_cache, image_list>>
        /\ OutsideExport

DoExport(batch) ==
    LET r == export_images(batch, export_settings, corrupt, files)
    IN  /\ Cardinality(files) < MaxFiles
        /\ files' = r.files
        /\ last_export' =
               [outcome |-> r.outcome, count |-> r.count, written |-> r.written,
                batch |-> batch, settings |-> export_settings,
                before |-> files, after |-> r.files]
        /\ last_add' = NoAdd
        /\ UNCHANGED <<corrupt, items, export_settings, thumbnail_cache,
                       image_list>>
        /\ OutsideExport

\* MainWindow._export_all
ExportAll ==
    /\ items # <<>>
    /\ DoExport(items)

\* MainWindow._export_selected
ExportSelected ==
    \E index \in 1..Len(items) : DoExport(<<items[index]>>)

NextExport ==
    \/ AddImages
    \/ RemoveSelectedImage
    \/ ClearImages
    \/ SelectOutputDirectory
    \/ ExportAll
    \/ ExportSelected

SpecExport == InitExport /\ [][NextExport]_vars

(***************************************************************************)
(* SpecImages: the image list under imports, folder imports, drops,        *)
(* removals and clear.  Every path the program hands to ImageManager comes *)
(* from QFileDialog or QUrl.toLocalFile and is absolute; directory "L" is  *)
(* a link to directory "A".  last_add describes the step just taken.       *)
(***************************************************************************)
\* the files a user can pick or drop: images, a file in a format that is
\* not accepted, a second path to an image through the link "L", and the
\* name of a file that is gone by the time it is added
ImportPaths ==
    SourcePaths \cup { MkPath("L", "a", ".png"), MkPath("A", "a", ".txt"),
                       MkPath("A", "gone", ".png") }

\* the files that exist on disk
ImportFiles == { FileId(p) : p \in ImportPaths \ {MkPath("A", "gone", ".png")} }

\* one selection of the file dialog, or the files of one drop
PathBatches ==
    { <<p>> : p \in ImportPaths } \cup
    { <<p, q>> : p \in {MkPath("A", "a", ".png"), MkPath("L", "a", ".png")},
                 q \in ImportPaths }

\* Path.rglob("*"): the files under a directory, in the order the file
\* system lists them, which is any order
Listing(d, fs) == { p \in ImportPaths : p.dir = d /\ exists(p, fs) }

Orders(S) ==
    { order \in [1..Cardinality(S) -> S] :
        \A i, j \in 1..Cardinality(S) : i # j => order[i] # order[j] }

\* ImageManager.add_directory: the list after adding the files the
\* directory iterator yields, one add_paths call per supported file
RECURSIVE add_directory(_, _, _)
add_directory(its, listed, fs) ==
    IF listed = <<>> THEN its
    ELSE LET file_path == Head(listed)
         IN  IF file_path.ext \in SUPPORTED_INPUT_EXTENSIONS
             THEN add_directory(add_paths(its, <<file_path>>, fs), Tail(listed), fs)
             ELSE add_directory(its, Tail(listed), fs)

\* ImageManager.add_directory: the list `found` it returns
RECURSIVE add_directory_found(_, _, _)
add_directory_found(its, listed, fs) ==
    IF listed = <<>> THEN <<>>
    ELSE LET file_path == Head(listed)
         IN  IF file_path.ext \in SUPPORTED_INPUT_EXTENSIONS
             THEN add_paths_added(its, <<file_path>>, fs)
                      \o add_directory_found(add_paths(its, <<file_path>>, fs),
                                             Tail(listed), fs)
             ELSE add_directory_found(its, Tail(listed), fs)

\* ImageManager.clear
clear(its) == <<>>

InitImages ==
    /\ files = ImportFiles
    /\ corrupt \in { {}, {FileId(MkPath("A", "a", ".jpg"))} }
    /\ items = <<>>
    /\ thumbnail_cache = {}
    /\ image_list = <<>>
    /\ export_settings = DefaultExportSettings
    /\ last_export = NoExport
    /\ last_add = NoAdd
    /\ ResizeAtRest
    /\ RenderAtRest
    /\ PreviewAtRest
    /\ StoreAtRest

\* MainWindow._import_images -> _add_images
ImportImages ==
    \E paths \in PathBatches :
        /\ Len(add_paths(items, paths, files)) <= MaxImages
        /\ items' = add_paths(items, paths, files)
        /\ image_list' =
               add_images_rows(image_list, add_paths_added(items, paths, files),
                               items')
        /\ thumbnail_cache' =
               load_thumbnails(add_paths_added(items, paths, files),
                               thumbnail_cache, files, corrupt)
        /\ last_add' = [op |-> "add_paths", paths |-> paths,
                        added |-> add_paths_added(items, paths, files)]
        /\ UNCHANGED <<files, corrupt, export_settings, last_export>>
        /\ OutsideExport

\* MainWindow._import_folder
ImportFolder ==
    \E d \in Dirs : \E listed \in Orders(Listing(d, files)) :
        /\ Len(add_directory(items, listed, files)) <= MaxImages
        /\ items' = add_directory(items, listed, files)
        /\ image_list' = refresh_image_list(items')
        /\ thumbnail_cache' =
               load_thumbnails(items', thumbnail_cache, files, corrupt)
        /\ last_add' = [op |-> "add_directory", paths |-> listed,
                        added |-> add_directory_found(items, listed, files)]
        /\ UNCHANGED <<files, corrupt, export_settings, last_export>>
        /\ OutsideExport

\* MainWindow._on_files_dropped: the file of the drop, then its folder
FilesDropped ==
    \E paths \in { <<p>> : p \in ImportPaths }, d \in Dirs :
        \E listed \in Orders(Listing(d, files)) :
            LET direct == add_paths(items, paths, files)
            IN  /\ Len(add_directory(direct, listed, files)) <= MaxImages
                /\ items' = add_directory(direct, listed, files)
                /\ image_list' = refresh_image_list(items')
                /\ thumbnail_cache' =
                       load_thumbnails(
                           items',
                           load_thumbnails(add_paths_added(items, paths, files),
                                           thumbnail_cache, files, corrupt),
                           files, corrupt)
                /\ last_add' =
                       [op |-> "drop", paths |-> paths \o listed,
                        added |-> add_paths_added(items, paths, files)
                                    \o add_directory_found(direct, listed, files)]
                /\ UNCHANGED <<files, corrupt, export_settings, last_export>>
                /\ OutsideExport

\* MainWindow._remove_selected_image
RemoveImage ==
    \E row \in 1..Len(image_list) :
        /\ row <= Len(items)
        /\ items' = remove_index(items, row)
        /\ thumbnail_cache' = remove_index_cache(thumbnail_cache, items, row)
        /\ image_list' = takeItem(image_list, row)
        /\ last_add' = [op |-> "remove_index", paths |-> <<items[row]>>,
                        added |-> <<>>]
        /\ UNCHANGED <<files, corrupt, export_settings, last_export>>
        /\ OutsideExport

\* MainWindow._clear_images
ClearAllImages ==
    /\ items' = clear(items)
    /\ thumbnail_cache' = {}
    /\ image_list' = <<>>
    /\ last_add' = [op |-> "clear", paths |-> <<>>, added |-> <<>>]
    /\ UNCHANGED <<files, corrupt, export_settings, last_export>>
    /\ OutsideExport

NextImages ==
    \/ ImportImages
    \/ ImportFolder
    \/ FilesDropped
    \/ RemoveImage
    \/ ClearAllImages

SpecImages == InitImages /\ [][NextImages]_vars

(***************************************************************************)
(* SpecResize: the resize step of the export on one decoded image.         *)
(***************************************************************************)
ImageSizes ==
    ((1..MaxDim) \X (1..MaxDim))
        \cup { <<200, 100>>, <<100, 100>>, <<1000, 667>>, <<1000, 1>>, <<1, 1000>> }

\* resize_value_spin holds 1..10000; a stored value may be None (0 here).
SpinValues == (1..MaxValue) \cup {29, 50, 100, 800}

InitResize ==
    /\ src_size \in ImageSizes
    /\ resize_settings \in [resize_mode : ResizeModes, resize_value : SpinValues \cup {0}]
    /\ resized = NoResize
    /\ ExportAtRest
    /\ RenderAtRest
    /\ PreviewAtRest
    /\ StoreAtRest

\* ControlsPanel._on_export_changed (resize_combo, resize_value_spin)
OnResizeChanged ==
    \E mode \in ResizeModes, value \in SpinValues :
        /\ resize_settings' = [resize_mode |-> mode, resize_value |-> value]
        /\ resize_settings' # resize_settings
        /\ resized' = NoResize
        /\ UNCHANGED <<src_size, exportVars, storeVars, renderVars, previewVars>>

\* MainWindow._export_images, lines 321-322: image = self._resize_image(image)
ExportResize ==
    LET r == resize_image(src_size, resize_settings.resize_mode,
                          resize_settings.resize_value)
    IN  /\ resized' = [target |-> r.target, size |-> r.size, done |-> TRUE]
        /\ UNCHANGED <<src_size, resize_settings, exportVars, storeVars, renderVars,
                       previewVars>>

NextResize ==
    \/ OnResizeChanged
    \/ ExportResize

SpecResize == InitResize /\ [][NextResize]_vars

(***************************************************************************)
(* SpecRender: the export of one decoded item.  composed describes the     *)
(* step just taken when it was the export of the item.                     *)
(***************************************************************************)
Texts == { <<>>, <<" ">>, <<"H", "i">> }
Rotations == {0, 90}

\* The layouts of the model: each anchor with the position its button sets,
\* and with a position left by a drag or a stored file.
Layouts ==
    { [position |-> position_map(a), anchor |-> a] : a \in WatermarkAnchors }
        \cup { [position |-> <<Rat(1, 4), Rat(3, 4)>>, anchor |-> a] :
                   a \in WatermarkAnchors }

\* The watermark settings a session can start from (SettingsStore.load).
StoredWatermarkSettings ==
    { [ watermark_type |-> type,
        text_settings |-> [text |-> text, font_size |-> 32, opacity |-> to],
        image_settings |-> [image_path |-> path, scale |-> Rat(25, 100),
                            opacity |-> io],
        rotation |-> rotation,
        layout |-> layout ] :
        type \in {"text", "image"}, text \in Texts, to \in {0, 80},
        path \in WatermarkPaths, io \in {0, 70, 100}, rotation \in Rotations,
        layout \in Layouts }

\* The decoded items and resize settings of the model.
RenderInputs ==
    { <<<<200, 100>>, "none", 0>>, <<<<200, 100>>, "width", 100>>,
      <<<<200, 100>>, "percent", 50>>, <<<<100, 100>>, "width", 29>>,
      <<<<40, 30>>, "none", 0>> }

InitRender ==
    /\ \E input \in RenderInputs :
          /\ src_size = input[1]
          /\ resize_settings = [resize_mode |-> input[2], resize_value |-> input[3]]
    /\ resized = NoResize
    /\ watermark_settings \in StoredWatermarkSettings
    /\ composed = NoComposed
    /\ ExportAtRest
    /\ PreviewAtRest
    /\ StoreAtRest

\* MainWindow._export_images, lines 318-338, for one decoded item
ExportItem ==
    /\ composed' = [done |-> TRUE] @@ export_item(src_size, resize_settings,
                                                  watermark_settings)
    /\ UNCHANGED <<watermark_settings, exportVars, storeVars, resizeVars, previewVars>>

NextRender == ExportItem

SpecRender == InitRender /\ [][NextRender]_vars

(***************************************************************************)
(* SpecPreview: the preview, the watermark controls and the drag.          *)
(* last_move describes the step just taken when it was a mouseMoveEvent    *)
(* that the preview handled as a drag.                                     *)
(***************************************************************************)
PreviewImages == { <<200, 100>>, <<100, 100>>, <<40, 30>> }
WidgetSizes == { MinimumSize, <<600, 400>> }
PreviewTexts == { <<>>, <<"H", "i">>, <<"H", "i", "y", "a">> }

\* event.position(): inside the widget and, during a grab, outside of it
Pointers == { -40, 210, 420, 610 } \X { 200, 440 }

\* The settings a session of the model starts from.
PreviewStartSettings ==
    { [ DefaultWatermarkSettings EXCEPT
            !.text_settings.text = <<"H", "i", "y", "a">>,
            !.image_settings.image_path = start[1],
            !.rotation = start[2] ] :
        start \in { <<"logo.png", 0>>, <<NoPath, 90>> } }

InitPreview ==
    /\ watermark_settings \in PreviewStartSettings
    /\ composed = NoComposed
    /\ base_pixmap = NoPixmap
    /\ watermark_pixmap = NoOverlay
    /\ widget_size \in WidgetSizes
    /\ scale_factor = RInt(1)
    /\ draw_rect = NoRect
    /\ dragging = FALSE
    /\ drag_delta = NoPoint
    /\ last_move = NoMove
    /\ last_event = NoEvent
    /\ events = 0
    /\ ExportAtRest
    /\ ResizeAtRest
    /\ StoreAtRest

\* PreviewWidget.set_image
set_image(pixmap) ==
    LET scaled == update_scaled_pixmap(pixmap, widget_size)
    IN  /\ base_pixmap' = pixmap
        /\ scale_factor' = scaled.scale_factor
        /\ draw_rect' = scaled.draw_rect

\* MainWindow._load_preview_image for an item that decodes: set_image, then
\* update_settings
LoadPreviewImage ==
    \E pixmap \in PreviewImages :
        /\ Event
        /\ pixmap # base_pixmap
        /\ set_image(pixmap)
        /\ watermark_pixmap' = regenerate_watermark(pixmap, watermark_settings)
        /\ last_move' = NoMove
        /\ Happens("load", "center", <<0, 0>>, "left")
        /\ UNCHANGED <<watermark_settings, composed, widget_size, dragging,
                       drag_delta, exportVars, storeVars, resizeVars>>

\* MainWindow._clear_images, _remove_selected_image of the last item:
\* preview.set_image(None)
ClearPreviewImage ==
    /\ Event
    /\ base_pixmap # NoPixmap
    /\ set_image(NoPixmap)
    /\ watermark_pixmap' = regenerate_watermark(NoPixmap, watermark_settings)
    /\ last_move' = NoMove
    /\ Happens("clear", "center", <<0, 0>>, "left")
    /\ UNCHANGED <<watermark_settings, composed, widget_size, dragging,
                   drag_delta, exportVars, storeVars, resizeVars>>

\* a resize that also puts the watermark back on its anchor's canonical
\* position and announces it as a position update
ResizeEventRepositioning ==
    \E size \in WidgetSizes :
        LET scaled == update_scaled_pixmap(base_pixmap, size)
            layout == watermark_settings.layout
        IN  /\ Event
            /\ size # widget_size
            /\ widget_size' = size
            /\ scale_factor' = scaled.scale_factor
            /\ draw_rect' = scaled.draw_rect
            /\ watermark_settings' =
                   [watermark_settings EXCEPT
                        !.layout.position = position_map(layout.anchor)]
            /\ last_move' = NoMove
            /\ Happens("resize", "center", <<0, 0>>, "left")
            /\ UNCHANGED <<base_pixmap, watermark_pixmap, dragging, drag_delta,
                           composed, exportVars, storeVars, resizeVars>>

\* PreviewWidget.resizeEvent
ResizeEvent ==
    \E size \in WidgetSizes :
        LET scaled == update_scaled_pixmap(base_pixmap, size)
        IN  /\ Event
            /\ size # widget_size
            /\ widget_size' = size
            /\ scale_factor' = scaled.scale_factor
            /\ draw_rect' = scaled.draw_rect
            /\ last_move' = NoMove
            /\ Happens("resize", "center", <<0, 0>>, "left")
            /\ UNCHANGED <<base_pixmap, watermark_pixmap, dragging, drag_delta,
                           renderVars, exportVars, storeVars, resizeVars>>

\* the radio buttons of watermark_type_group, by id
TypeButtons == {0, 1}

\* the button of the group that is checked
checked_id(settings) == IF settings.watermark_type = "text" THEN 0 ELSE 1

\* a handler that also resets the descriptor of the other type
on_watermark_type_changed_resetting(settings, button_id) ==
    IF button_id = 0
    THEN [settings EXCEPT !.watermark_type = "text",
                          !.image_settings = DefaultWatermarkSettings.image_settings]
    ELSE [settings EXCEPT !.watermark_type = "image",
                          !.text_settings = DefaultWatermarkSettings.text_settings]

\* ControlsPanel._on_watermark_type_changed(button_id, checked = True)
on_watermark_type_changed(settings, button_id) ==
    IF button_id = 0
    THEN [settings EXCEPT !.watermark_type = "text"]
    ELSE [settings EXCEPT !.watermark_type = "image"]

\* idToggled of the button that becomes checked, then
\* ControlsPanel._on_watermark_type_changed and
\* MainWindow._on_watermark_changed
OnWatermarkTypeChanged ==
    \E button_id \in TypeButtons :
        /\ button_id # checked_id(watermark_settings)
        /\ on_watermark_changed(
               on_watermark_type_changed(watermark_settings, button_id))
        /\ Happens("type", "center", <<0, 0>>, "left")
        /\ UNCHANGED <<composed, exportVars, storeVars, resizeVars>>

\* ControlsPanel._on_text_settings_changed (text_edit)
OnTextChanged ==
    \E text \in PreviewTexts :
        /\ text # watermark_settings.text_settings.text
        /\ on_watermark_changed(
               [watermark_settings EXCEPT !.text_settings.text = text])
        /\ Happens("text", "center", <<0, 0>>, "left")
        /\ UNCHANGED <<composed, exportVars, storeVars, resizeVars>>

\* ControlsPanel._on_anchor_selected, then MainWindow._on_watermark_changed
\* and MainWindow._on_anchor_selected
OnAnchorSelected ==
    \E anchor \in WatermarkAnchors :
        /\ on_watermark_changed(
               [watermark_settings EXCEPT
                    !.layout = [position |-> position_map(anchor),
                                anchor |-> anchor]])
        /\ Happens("anchor", anchor, <<0, 0>>, "left")
        /\ UNCHANGED <<composed, exportVars, storeVars, resizeVars>>

\* a press reaches the widget only from a point inside it (QWidget.rect)
InWidget(point, size) ==
    /\ 0 <= point[1] /\ point[1] < size[1]
    /\ 0 <= point[2] /\ point[2] < size[2]

\* PreviewWidget.mousePressEvent
MousePressEvent ==
    \E point \in Pointers, button \in Buttons :
        LET position == <<RInt(point[1]), RInt(point[2])>>
            layout == watermark_settings.layout
            rect == watermark_rect_widget(base_pixmap, watermark_pixmap, layout,
                                          scale_factor, draw_rect)
        IN  /\ Event
            /\ InWidget(point, widget_size)
            /\ IF button = "left" /\ ~rect.null /\ contains(rect, position)
               THEN /\ dragging' = TRUE
                    /\ LET base_rect == watermark_rect_base(
                                            base_pixmap, watermark_pixmap, layout)
                           pointer_base == widget_to_base(position, scale_factor,
                                                          draw_rect)
                       IN  drag_delta' =
                               << RSub(pointer_base[1], center(base_rect)[1]),
                                  RSub(pointer_base[2], center(base_rect)[2]) >>
               ELSE UNCHANGED <<dragging, drag_delta>>
            /\ last_move' = NoMove
            /\ Happens("press", "center", point, button)
            /\ UNCHANGED <<base_pixmap, watermark_pixmap, widget_size,
                           scale_factor, draw_rect, renderVars, exportVars, storeVars,
                           resizeVars>>

\* PreviewWidget.mouseMoveEvent while a button is held, with the slots of
\* positionChanged and anchorChanged
MouseMoveEvent ==
    \E point \in Pointers :
        LET position == <<RInt(point[1]), RInt(point[2])>>
            layout == watermark_settings.layout
        IN  /\ Event
            /\ dragging
            /\ base_pixmap # NoPixmap
            /\ ~watermark_pixmap.null
            /\ LET new == drag_position(position, base_pixmap, watermark_pixmap,
                                        layout, scale_factor, draw_rect, drag_delta)
               IN  /\ watermark_settings' =
                          on_preview_anchor_changed(
                              on_preview_position_changed(watermark_settings,
                                                          new[1], new[2]),
                              "center")
                   /\ last_move' =
                          [ handled |-> TRUE, point |-> point,
                            pointer_base |-> widget_to_base(position, scale_factor,
                                                            draw_rect),
                            position |-> new, base |-> base_pixmap,
                            overlay |-> watermark_pixmap.size,
                            delta |-> drag_delta, before |-> layout ]
            /\ Happens("move", "center", point, "left")
            /\ UNCHANGED <<composed, base_pixmap, watermark_pixmap, widget_size,
                           scale_factor, draw_rect, dragging, drag_delta,
                           exportVars, storeVars, resizeVars>>

\* a release that does not end the drag
MouseReleaseEventKeeping ==
    \E button \in Buttons :
        /\ Event
        /\ last_move' = NoMove
        /\ Happens("release", "center", <<0, 0>>, button)
        /\ UNCHANGED <<base_pixmap, watermark_pixmap, widget_size,
                       scale_factor, draw_rect, dragging, drag_delta,
                       renderVars, exportVars, storeVars, resizeVars>>

\* PreviewWidget.mouseReleaseEvent
MouseReleaseEvent ==
    \E button \in Buttons :
        /\ Event
        /\ dragging' = IF button = "left" /\ dragging THEN FALSE ELSE dragging
        /\ last_move' = NoMove
        /\ Happens("release", "center", <<0, 0>>, button)
        /\ UNCHANGED <<base_pixmap, watermark_pixmap, widget_size,
                       scale_factor, draw_rect, drag_delta, renderVars,
                       exportVars, storeVars, resizeVars>>

NextPreview ==
    \/ LoadPreviewImage
    \/ ClearPreviewImage
    \/ ResizeEvent
    \/ OnTextChanged
    \/ OnWatermarkTypeChanged
    \/ OnAnchorSelected
    \/ MousePressEvent
    \/ MouseMoveEvent
    \/ MouseReleaseEvent

SpecPreview == InitPreview /\ [][NextPreview]_vars

(***************************************************************************)
(* SpecStore: the settings file, the templates and the controls that show  *)
(* the settings.  last_store describes the step just taken.  While the     *)
(* program is not running only the files mean anything.                    *)
(***************************************************************************)
\* what the user types as a template name
SaveTexts ==
    { <<"a">>, <<"a", "-", "b">>, <<" ", "a", " ", "b">>, <<"a", "?", "b">>,
      <<" ">> }

\* what the user types as the watermark text
StoreTexts == { DefaultWatermarkSettings.text_settings.text, <<"H", "i">> }

\* the values the user moves the opacity slider of the text to
StoreOpacities == { 80, 50 }

\* the colours the user picks in the colour dialog
Colors == { <<255, 255, 255, 255>>, <<255, 0, 0, 128>> }

\* the panel as the program holds it
Panel == [w |-> watermark_settings, e |-> export_settings, ui |-> widgets]

\* MainWindow._on_watermark_changed / _on_export_changed with what the
\* panel emits; the preview has no image in this part of the model
Emitted(panel) ==
    /\ watermark_settings' = panel.w
    /\ export_settings' = panel.e
    /\ widgets' = panel.ui
    /\ watermark_pixmap' = regenerate_watermark(base_pixmap, panel.w)
    /\ UNCHANGED <<base_pixmap, widget_size, scale_factor, draw_rect, dragging,
                   drag_delta, last_move, last_event, events>>
    /\ UNCHANGED <<files, corrupt, items, last_export, last_add,
                   thumbnail_cache, image_list, composed, resizeVars>>

Stored(op, name, outcome, watermark, export) ==
    last_store' = [ op |-> op, name |-> name, outcome |-> outcome,
                    watermark |-> watermark, export |-> export ]

\* one more step, within the bound of the model
Op == store_ops < MaxStoreOps /\ store_ops' = store_ops + 1

InitStore ==
    /\ watermark_settings = DefaultWatermarkSettings
    /\ composed = NoComposed
    /\ files = {}
    /\ corrupt = {}
    /\ items = <<>>
    /\ thumbnail_cache = {}
    /\ image_list = <<>>
    /\ export_settings = DefaultExportSettings
    /\ last_export = NoExport
    /\ last_add = NoAdd
    /\ ResizeAtRest
    /\ PreviewAtRest
    /\ StoreAtRest

\* the user edits the watermark text: ControlsPanel._on_text_settings_changed
EditText ==
    \E text \in StoreTexts :
        /\ Op
        /\ running
        /\ text # widgets.text_input
        /\ Emitted(set_text_input(Panel, text))
        /\ Stored("edit", <<>>, "done", watermark_settings, export_settings)
        /\ UNCHANGED <<templates, template_names, state_file, running>>

\* the user moves the opacity slider of the text:
\* ControlsPanel._on_text_settings_changed
EditOpacity ==
    \E value \in StoreOpacities :
        /\ Op
        /\ running
        /\ value # widgets.opacity_slider
        /\ Emitted(set_opacity_slider(Panel, value))
        /\ Stored("edit", <<>>, "done", watermark_settings, export_settings)
        /\ UNCHANGED <<templates, template_names, state_file, running>>

\* ControlsPanel._on_color_clicked with a colour accepted in the dialog
PickColor ==
    \E color \in Colors :
        /\ Op
        /\ running
        /\ watermark_settings.text_settings.color.items # color
        /\ Emitted([Panel EXCEPT !.w.text_settings.color =
                        [kind |-> "tuple", items |-> color]])
        /\ Stored("edit", <<>>, "done", watermark_settings, export_settings)
        /\ UNCHANGED <<templates, template_names, state_file, running>>

\* the user picks an output format: ControlsPanel._on_export_changed
EditFormat ==
    \E format \in OutputFormats :
        /\ Op
        /\ running
        /\ format # widgets.format_combo
        /\ Emitted(set_format_combo(Panel, format))
        /\ Stored("edit", <<>>, "done", watermark_settings, export_settings)
        /\ UNCHANGED <<templates, template_names, state_file, running>>

\* ControlsPanel._on_template_save, MainWindow._save_template
SaveTemplate ==
    \E text \in SaveTexts :
        LET name == strip(text)
            dir == save_template(templates, name, watermark_settings,
                                 export_settings)
        IN  /\ Op
            /\ running
            /\ name # <<>>
            /\ Cardinality(DOMAIN dir) <= MaxTemplates
            /\ templates' = dir
            /\ template_names' = list_templates(dir)
            /\ Stored("save", name, "saved", watermark_settings, export_settings)
            /\ UNCHANGED <<state_file, running, widgets, exportVars, resizeVars,
                           renderVars, previewVars>>

\* ControlsPanel._on_template_load, MainWindow._load_template
LoadTemplate ==
    \E row \in 1..Len(template_names) :
        LET name == template_names[row]
            loaded == load_template(templates, name)
        IN  /\ Op
            /\ running
            /\ IF loaded.outcome = "loaded"
               THEN Emitted(set_settings(loaded.watermark, loaded.export, widgets))
               ELSE UNCHANGED <<widgets, exportVars, resizeVars, renderVars,
                                previewVars>>
            /\ Stored("load", name, loaded.outcome, loaded.watermark,
                      loaded.export)
            /\ UNCHANGED <<templates, template_names, state_file, running>>

\* ControlsPanel._on_template_delete, MainWindow._delete_template
DeleteTemplate ==
    \E row \in 1..Len(template_names) :
        LET name == template_names[row]
            dir == delete_template(templates, name)
        IN  /\ Op
            /\ running
            /\ templates' = dir
            /\ template_names' = list_templates(dir)
            /\ Stored("delete", name, "deleted", watermark_settings,
                      export_settings)
            /\ UNCHANGED <<state_file, running, widgets, exportVars, resizeVars,
                           renderVars, previewVars>>

\* a second instance of the program deletes a template: the file goes,
\* the list this instance shows stays
OtherInstanceDeletes ==
    \E stem \in DOMAIN templates :
        /\ Op
        /\ templates' = delete_template(templates, stem)
        /\ Stored("other_instance", stem, "deleted", watermark_settings,
                  export_settings)
        /\ UNCHANGED <<template_names, state_file, running, widgets, exportVars,
                       resizeVars, renderVars, previewVars>>

\* MainWindow.closeEvent
CloseEvent ==
    /\ Op
    /\ running
    /\ running' = FALSE
    /\ state_file' = [ exists |-> TRUE,
                       document |-> SettingsStore_save(watermark_settings,
                                                       export_settings) ]
    /\ Stored("close", <<>>, "saved", watermark_settings, export_settings)
    /\ UNCHANGED <<templates, template_names, widgets, exportVars, resizeVars,
                   renderVars, previewVars>>

\* MainWindow.__init__: SettingsStore.load, then _load_initial_state
Launch ==
    LET loaded == IF state_file.exists
                  THEN SettingsStore_load(state_file.document)
                  ELSE [ watermark |-> DefaultWatermarkSettings,
                         export |-> DefaultExportSettings ]
    IN  /\ Op
        /\ ~running
        /\ running' = TRUE
        /\ Emitted(set_settings(loaded.watermark, loaded.export,
                                ConstructedWidgets))
        /\ template_names' = list_templates(templates)
        /\ Stored("launch", <<>>, "loaded", loaded.watermark, loaded.export)
        /\ UNCHANGED <<templates, state_file>>

NextStore ==
    \/ EditText
    \/ EditOpacity
    \/ PickColor
    \/ EditFormat
    \/ SaveTemplate
    \/ LoadTemplate
    \/ DeleteTemplate
    \/ OtherInstanceDeletes
    \/ CloseEvent
    \/ Launch

SpecStore == InitStore /\ [][NextStore]_vars

(***************************************************************************)
(* Properties of the batch export, stated on last_export.                  *)
(***************************************************************************)
Range(seq) == { seq[i] : i \in 1..Len(seq) }

\* The items of the last batch that decoded, in list order.
DecodedOfBatch ==
    SelectSeq(last_export.batch,
              LAMBDA it : FileId(it) \in last_export.before /\ FileId(it) \notin corrupt)

\* The file <stem'><ext> (k = 0) or <stem'>_k<ext> in the output directory,
\* for a source item under the settings of the last export.
OutputCandidate(it, k) ==
    LET es == last_export.settings
        stem1 == IF es.naming_mode = "keep" THEN it.stem
                 ELSE IF es.naming_mode = "prefix" THEN es.custom_prefix \o it.stem
                 ELSE it.stem \o es.custom_suffix
        ext == IF es.output_format = "png" THEN ".png" ELSE ".jpg"
        name == IF k = 0 THEN stem1 \o ext
                ELSE stem1 \o "_" \o IntToStr(k) \o ext
    IN  <<Loc(es.output_dir), name>>

\* C1: a batch export with prevent_overwrite enabled whose output directory
\* is the same location as the parent directory of any item of the batch
\* writes no file at all and ends with the configuration error.
C1_BatchAbortsBeforeAnyWrite ==
    ( /\ last_export.outcome # "none"
      /\ last_export.settings.output_dir # NoDir
      /\ last_export.settings.prevent_overwrite
      /\ \E i \in 1..Len(last_export.batch) :
            Loc(last_export.batch[i].dir) = Loc(last_export.settings.output_dir) )
    => /\ last_export.outcome = "config_error"
       /\ last_export.written = <<>>
       /\ last_export.after = last_export.before
       /\ files = last_export.before

\* C1 happens: the batch aborted although its first item decodes and lies in
\* another directory than the output directory; the second item offends.
C1_Witness ==
    /\ last_export.outcome = "config_error"
    /\ Len(last_export.batch) = 2
    /\ Loc(last_export.batch[1].dir) # Loc(last_export.settings.output_dir)
    /\ FileId(last_export.batch[1]) \notin corrupt
    /\ last_export.batch[2].dir # last_export.settings.output_dir
    /\ Loc(last_export.batch[2].dir) = Loc(last_export.settings.output_dir)

C3_OutputPathFirstFree ==
    last_export.outcome = "done" =>
        LET ok == DecodedOfBatch
            w == last_export.written
        IN  \A j \in 1..Len(w) :
                j <= Len(ok) =>
                LET fsj == last_export.before \cup { w[i] : i \in 1..(j - 1) }
                IN  IF OutputCandidate(ok[j], 0) \notin fsj
                    THEN w[j] = OutputCandidate(ok[j], 0)
                    ELSE \E k \in 1..(Cardinality(fsj) + 1) :
                            /\ w[j] = OutputCandidate(ok[j], k)
                            /\ w[j] \notin fsj
                            /\ \A m \in 1..(k - 1) : OutputCandidate(ok[j], m) \in fsj

\* C3 happens: a_watermarked.png and a_watermarked_1.png existed, and the
\* export wrote a_watermarked_2.png.
C3_Witness ==
    /\ last_export.outcome = "done"
    /\ \E j \in 1..Len(last_export.written) :
          /\ last_export.written[j][2] = "a_watermarked_2.png"
          /\ <<last_export.written[j][1], "a_watermarked.png">> \in last_export.before
          /\ <<last_export.written[j][1], "a_watermarked_1.png">> \in last_export.before

(***************************************************************************)
(* Properties of the resize step, stated on resized.                       *)
(***************************************************************************)
\* n/d rounded to the nearest integer, a tie rounded up, or to the even one
RoundHalfUp(n, d) == (2 * n + d) \div (2 * d)
RoundHalfEven(n, d) ==
    IF (2 * n) % (2 * d) = d /\ (n \div d) % 2 = 0 THEN n \div d
    ELSE RoundHalfUp(n, d)

\* x is round(n/d) floored at 1, under either reading of round
IsRoundedFloored(x, n, d) ==
    x \in { Max(1, RoundHalfUp(n, d)), Max(1, RoundHalfEven(n, d)) }

\* C4: for a positive value V the size the resize targets is (V, round(h*V/w))
\* in width mode, (round(w*V/h), V) in height mode, (round(w*V/100),
\* round(h*V/100)) in percent mode and (w, h) in none mode, each floored at 1.
C4_ResizeTargetRounded ==
    (resized.done /\ resize_settings.resize_value > 0) =>
        LET w == src_size[1]
            h == src_size[2]
            V == resize_settings.resize_value
            mode == resize_settings.resize_mode
            t == resized.target
        IN  CASE mode = "width" -> t[1] = Max(1, V) /\ IsRoundedFloored(t[2], h * V, w)
              [] mode = "height" -> IsRoundedFloored(t[1], w * V, h) /\ t[2] = Max(1, V)
              [] mode = "percent" -> /\ IsRoundedFloored(t[1], w * V, 100)
                                     /\ IsRoundedFloored(t[2], h * V, 100)
              [] OTHER -> t = <<w, h>>

\* C5: the image that leaves the resize step, which is the one watermarked
\* and written, is at least 1 pixel wide and 1 pixel high.
C5_ResizedAtLeastOneByOne ==
    resized.done => resized.size[1] >= 1 /\ resized.size[2] >= 1

\* C5 happens: a 1000 x 1 image resized to width 100, whose computed height
\* int(1 * 0.1) is 0, leaves the step 100 x 1.
C5_Witness ==
    /\ resized.done
    /\ src_size = <<1000, 1>>
    /\ resize_settings = [resize_mode |-> "width", resize_value |-> 100]
    /\ resized.target = <<100, 1>>
    /\ resized.size = <<100, 1>>

(***************************************************************************)
(* Properties of the compositing step, stated on composed.                 *)
(***************************************************************************)
LeftAnchors == {"top_left", "center_left", "bottom_left"}
RightAnchors == {"top_right", "center_right", "bottom_right"}
TopAnchors == {"top_left", "top_center", "top_right"}
BottomAnchors == {"bottom_left", "bottom_center", "bottom_right"}

RatioX(anchor) ==
    IF anchor \in LeftAnchors THEN RInt(0)
    ELSE IF anchor \in RightAnchors THEN RInt(1) ELSE Rat(1, 2)

RatioY(anchor) ==
    IF anchor \in TopAnchors THEN RInt(0)
    ELSE IF anchor \in BottomAnchors THEN RInt(1) ELSE Rat(1, 2)

\* the size of the item after the export resize
ResizedSize ==
    resize_image(src_size, resize_settings.resize_mode,
                 resize_settings.resize_value).size

ActiveOpacity ==
    IF watermark_settings.watermark_type = "text"
    THEN watermark_settings.text_settings.opacity
    ELSE watermark_settings.image_settings.opacity

\* the active descriptor has nothing to render
NothingToRender ==
    IF watermark_settings.watermark_type = "text"
    THEN \A i \in 1..Len(watermark_settings.text_settings.text) :
             watermark_settings.text_settings.text[i] = " "
    ELSE watermark_settings.image_settings.image_path # "logo.png"

\* the overlay the same settings give at full opacity
OpaqueOverlay ==
    build_watermark(ResizedSize,
        [watermark_settings EXCEPT !.text_settings.opacity = 100,
                                   !.image_settings.opacity = 100])

\* C6: for an exported item and any of the 9 anchors, the overlay is drawn
\* with its top-left corner at (px*W - rx*ow, py*H - ry*oh): (px, py) the
\* layout's position, W x H the size of the image after the export resize,
\* ow x oh the size of the overlay, rx = 0, 1/2, 1 for a left, centre, right
\* anchor and ry = 0, 1/2, 1 for a top, centre, bottom anchor.
C6_OverlayTopLeft ==
    (composed.done /\ ~composed.overlay.null) =>
        LET layout == watermark_settings.layout
            W == ResizedSize[1]
            H == ResizedSize[2]
            ow == composed.overlay.size[1]
            oh == composed.overlay.size[2]
        IN  /\ composed.image.size = <<W, H>>
            /\ composed.draw_point =
                   << RSub(RMul(layout.position[1], RInt(W)),
                           RMul(RatioX(layout.anchor), RInt(ow))),
                      RSub(RMul(layout.position[2], RInt(H)),
                           RMul(RatioY(layout.anchor), RInt(oh))) >>

C6_Witness ==
    /\ composed.done
    /\ ~composed.overlay.null
    /\ ResizedSize # src_size
    /\ watermark_settings.layout.anchor = "bottom_right"
    /\ watermark_settings.layout.position = <<Rat(1, 4), Rat(3, 4)>>
    /\ composed.draw_point # NoPoint

\* C7: when the active descriptor has nothing to render (a text that is
\* empty or only whitespace; an image with no path, with a path that is not
\* a file, or with a file that does not decode), the renderer gives no
\* overlay, compositing returns a copy identical to the image passed in,
\* raises no error and leaves the image passed in as it was.
C7_NoOverlayIdenticalCopy ==
    (composed.done /\ NothingToRender) =>
        /\ composed.overlay.null
        /\ composed.result = composed.image
        /\ composed.base = composed.image
        /\ ~composed.raised

C7_Witness ==
    /\ composed.done
    /\ watermark_settings.watermark_type = "text"
    /\ watermark_settings.text_settings.text = <<" ">>
    /\ composed.overlay.null
    /\ composed.result = composed.image

MovePointerBase ==
    << RDiv(RSub(RInt(last_move.point[1]), draw_rect.x), scale_factor),
       RDiv(RSub(RInt(last_move.point[2]), draw_rect.y), scale_factor) >>

\* v held between lo and hi (lo where hi < lo)
Clamped(v, lo, hi) == IF RLt(v, lo) \/ RLt(hi, lo) THEN lo ELSE IF RLt(hi, v) THEN hi ELSE v

\* the centre of the last move on one axis (1: x, 2: y), in pixels: the
\* pointer less the grab offset, held within half an overlay of the edges
MoveCentre(axis) ==
    LET half == Rat(last_move.overlay[axis], 2)
    IN  Clamped(RSub(MovePointerBase[axis], last_move.delta[axis]), half,
                RSub(RInt(last_move.base[axis]), half))

\* the last move dragged an overlay no larger than the image
OverlayFits ==
    /\ last_move.overlay[1] <= last_move.base[1]
    /\ last_move.overlay[2] <= last_move.base[2]

\* the position of the last move keeps the overlay inside the image
MoveWithinImage ==
    \A axis \in {1, 2} :
        LET half == Rat(last_move.overlay[axis], 2)
            b == RInt(last_move.base[axis])
            c == RMul(last_move.position[axis], b)
        IN  RLe(half, c) /\ RLe(c, RSub(b, half))

\* the pointer of the last move was beyond the right edge of the image
BeyondRightEdge == RLt(RInt(last_move.base[1]), last_move.pointer_base[1])

\* the x a drag pinned to the right edge emits: 1 - (ow/2)/base_width
RightEdgeX ==
    RSub(RInt(1), RDiv(Rat(last_move.overlay[1], 2), RInt(last_move.base[1])))

\* C9: while dragging an overlay of ow x oh with ow <= base_width and
\* oh <= base_height, every emitted position (x, y) has
\* ow/2 <= x*base_width <= base_width - ow/2 and
\* oh/2 <= y*base_height <= base_height - oh/2, wherever the pointer is;
\* and a pointer beyond the right edge gives x = 1 - (ow/2)/base_width.
C9_DragClamp ==
    (last_move.handled /\ OverlayFits) =>
        /\ MoveWithinImage
        /\ BeyondRightEdge => last_move.position[1] = RightEdgeX

\* the first half of C9 alone
DragWithinImage == (last_move.handled /\ OverlayFits) => MoveWithinImage

\* the second half of C9 for a grab offset within half the overlay's width
DragPinnedRight ==
    ( /\ last_move.handled
      /\ OverlayFits
      /\ BeyondRightEdge
      /\ RLe(last_move.delta[1], Rat(last_move.overlay[1], 2)) ) =>
        last_move.position[1] = RightEdgeX

\* C10: after a pointer-move handled while the preview is dragging, the
\* layout of the application has anchor CENTER and the position that is the
\* clamped centre computed from that move, divided by the size of the base
\* image, whatever the anchor and position were before.
C10_DragSetsCentreLayout ==
    last_move.handled =>
        /\ watermark_settings.layout.anchor = "center"
        /\ watermark_settings.layout.position =
               << RDiv(MoveCentre(1), RInt(last_move.base[1])),
                  RDiv(MoveCentre(2), RInt(last_move.base[2])) >>

C10_Witness ==
    /\ last_move.handled
    /\ last_move.before.anchor = "top_left"
    /\ watermark_settings.layout.anchor = "center"
    /\ watermark_settings.layout.position # last_move.before.position
    /\ watermark_settings.layout.position = last_move.position

(***************************************************************************)
(* Properties of the anchor buttons, the viewport and the type switch,     *)
(* stated on last_event.                                                   *)
(***************************************************************************)
\* x = 0.05 / 0.5 / 0.95 for left / center / right
CanonicalX(anchor) ==
    IF anchor \in LeftAnchors THEN Rat(5, 100)
    ELSE IF anchor \in RightAnchors THEN Rat(95, 100)
    ELSE Rat(1, 2)

\* y = 0.05 / 0.5 / 0.95 for top / center / bottom
CanonicalY(anchor) ==
    IF anchor \in TopAnchors THEN Rat(5, 100)
    ELSE IF anchor \in BottomAnchors THEN Rat(95, 100)
    ELSE Rat(1, 2)

\* C11: right after the anchor button of anchor A is clicked, the layout's
\* anchor is A and its position is the canonical position of A, whatever
\* the layout was before, a layout left by a drag included.
C11_AnchorClickCanonical ==
    last_event.kind = "anchor" =>
        /\ watermark_settings.layout.anchor = last_event.anchor
        /\ watermark_settings.layout.position =
               <<CanonicalX(last_event.anchor), CanonicalY(last_event.anchor)>>

\* an anchor other than CENTER is clicked right after a drag moved the
\* watermark, while the drag is still in progress
C11_Witness ==
    /\ last_event.kind = "anchor"
    /\ last_event.anchor = "bottom_right"
    /\ last_event.after_move
    /\ last_event.was_dragging
    /\ watermark_settings.layout.position = <<Rat(95, 100), Rat(95, 100)>>

\* the step is the handling of one event of this kind
StepOf(kind) == events' = events + 1 /\ last_event'.kind = kind

\* C12: a viewport resize changes only the scale factor, the scaled image
\* and the draw offset (with the widget size it is told): the layout, the
\* rest of the settings, the base image, the overlay and the drag state
\* (Idle or Dragging, grab offset) are the same after it as before, and it
\* emits no position update.
C12_ResizeKeepsLayout ==
    [][ StepOf("resize") =>
           /\ watermark_settings' = watermark_settings
           /\ base_pixmap' = base_pixmap
           /\ watermark_pixmap' = watermark_pixmap
           /\ dragging' = dragging
           /\ drag_delta' = drag_delta
           /\ ~last_move'.handled ]_vars

\* the viewport was resized during a drag that had moved the watermark off
\* its anchor's canonical position, and the scale factor changed
C12_Witness ==
    /\ last_event.kind = "resize"
    /\ last_event.was_dragging
    /\ last_event.after_move
    /\ dragging
    /\ base_pixmap # NoPixmap
    /\ watermark_settings.layout.position # <<Rat(1, 2), Rat(1, 2)>>
    /\ scale_factor # update_scaled_pixmap(base_pixmap, MinimumSize).scale_factor

\* C13: switching the watermark type changes only the type tag (the text
\* descriptor, the image descriptor, the rotation and the layout are
\* unchanged), so switching back yields the settings held before the
\* first switch.
C13_TypeSwitchOnlyTag ==
    [][ StepOf("type") =>
           /\ watermark_settings'.watermark_type # watermark_settings.watermark_type
           /\ watermark_settings'.text_settings = watermark_settings.text_settings
           /\ watermark_settings'.image_settings = watermark_settings.image_settings
           /\ watermark_settings'.rotation = watermark_settings.rotation
           /\ watermark_settings'.layout = watermark_settings.layout
           /\ on_watermark_type_changed(watermark_settings',
                                        checked_id(watermark_settings))
                  = watermark_settings ]_vars

\* the type was switched to IMAGE while the text descriptor, the rotation
\* and the layout (moved by a drag) all differ from the defaults
C13_Witness ==
    /\ last_event.kind = "type"
    /\ last_event.after_move
    /\ watermark_settings.watermark_type = "image"
    /\ watermark_settings.text_settings # DefaultWatermarkSettings.text_settings
    /\ watermark_settings.rotation # DefaultWatermarkSettings.rotation
    /\ watermark_settings.layout # DefaultWatermarkSettings.layout

(***************************************************************************)
(* Properties of the image list, stated on last_add.                       *)
(***************************************************************************)
\* Path.absolute(): every path of the list is absolute already
absolute(path) == path

\* no two entries of the list denote the same file
NoTwoSame(its) ==
    \A i, j \in 1..Len(its) : i # j => absolute(its[i]) # absolute(its[j])

Index(its, path) == CHOOSE i \in 1..Len(its) : its[i] = path

\* the entries of `before` that are still in `after` are in the same
\* order there, and every new entry comes after them
OrderKept(before, after) ==
    \A i, j \in 1..Len(after) :
        i < j =>
            /\ (after[i] \in Range(before) /\ after[j] \in Range(before))
                   => Index(before, after[i]) < Index(before, after[j])
            /\ after[j] \in Range(before) => after[i] \in Range(before)

\* C14: whatever add_paths, add_directory, remove_index and clear have
\* been run, no two entries of the image list denote the same file, the
\* entries that survive a step keep their order with new entries after
\* them, and adding paths that are all present already leaves the list
\* unchanged and returns an empty `added`.
C14_ImageListNoDuplicates ==
    [][ /\ NoTwoSame(items')
        /\ OrderKept(items, items')
        /\ (/\ last_add'.op = "add_paths"
            /\ Range(last_add'.paths) \subseteq Range(items))
              => (items' = items /\ last_add'.added = <<>>) ]_vars

\* a path that is in a list of two entries already was added again
C14_Witness ==
    /\ last_add.op = "add_paths"
    /\ last_add.added = <<>>
    /\ Len(items) = 2
    /\ last_add.paths = <<items[1]>>

(***************************************************************************)
(* Properties of the settings file and the templates, stated on            *)
(* last_store.                                                             *)
(***************************************************************************)
\* the step is one of SpecStore, of this kind
StoreStep(op) == store_ops' = store_ops + 1 /\ last_store'.op = op

\* C15: loading a template whose sanitized file does not exist fails with
\* the not-found condition, which is not the outcome of a successful load,
\* and the settings the program holds, the widgets that show them and the
\* overlay of the preview are left as they were.
C15_MissingTemplateNotFound ==
    [][ (/\ StoreStep("load")
         /\ sanitize_name(last_store'.name) \notin DOMAIN templates)
           => /\ last_store'.outcome = "FileNotFoundError"
              /\ last_store'.outcome # "loaded"
              /\ watermark_settings' = watermark_settings
              /\ export_settings' = export_settings
              /\ widgets' = widgets
              /\ watermark_pixmap' = watermark_pixmap ]_vars

\* a template that is listed but whose file is gone was loaded while the
\* program held settings other than the defaults
C15_Witness ==
    /\ last_store.op = "load"
    /\ last_store.outcome = "FileNotFoundError"
    /\ sanitize_name(last_store.name) \notin DOMAIN templates
    /\ watermark_settings # DefaultWatermarkSettings
    /\ export_settings # DefaultExportSettings

\* the stems are in lexical order
LexicallySorted(listed) ==
    \A i, j \in 1..Len(listed) : i < j => str_lt(listed[i], listed[j])

\* after save_template(n, w, e) the sanitized n is listed and
\* load_template(n) succeeds
SavedIsListed ==
    StoreStep("save") =>
        /\ sanitize_name(last_store'.name) \in Range(list_templates(templates'))
        /\ load_template(templates', last_store'.name).outcome = "loaded"

\* after save_template(n, w, e), load_template(n) returns (w, e)
SavedIsReturned ==
    StoreStep("save") =>
        LET loaded == load_template(templates', last_store'.name)
        IN  /\ loaded.watermark = watermark_settings
            /\ loaded.export = export_settings

\* delete_template of an absent name changes nothing, and after
\* delete_template(n), load_template(n) is not found and n is not listed
DeletedIsGone ==
    StoreStep("delete") =>
        /\ sanitize_name(last_store'.name) \notin DOMAIN templates
              => templates' = templates
        /\ load_template(templates', last_store'.name).outcome
              = "FileNotFoundError"
        /\ sanitize_name(last_store'.name)
              \notin Range(list_templates(templates'))

\* C16: the template store is a map keyed by sanitized name: a saved
\* template is listed under its sanitized name and load_template returns
\* the settings saved, list_templates is in lexical order, deleting an
\* absent name changes nothing, and a deleted template is not found and
\* not listed.
C16_TemplateStoreIsMap ==
    [][ /\ SavedIsListed
        /\ SavedIsReturned
        /\ LexicallySorted(list_templates(templates'))
        /\ DeletedIsGone ]_vars

\* the part of C16 that holds: all of it but the order of the list and
\* the equality of the settings returned
TemplateStoreKeyed == [][SavedIsListed /\ DeletedIsGone]_vars

\* the settings returned for a saved template are the settings saved in
\* every field but the sequence type of the colour and the shadow offset
SavedIsReturnedAsLists ==
    [][ StoreStep("save") =>
           LET loaded == load_template(templates', last_store'.name)
           IN  /\ TextWatermarkSettings_from_dict_tuples(
                      loaded.watermark.text_settings)
                     = TextWatermarkSettings_from_dict_tuples(
                           watermark_settings.text_settings)
               /\ [loaded.watermark EXCEPT !.text_settings =
                                               watermark_settings.text_settings]
                     = watermark_settings
               /\ loaded.export = export_settings ]_vars

\* C17: for the watermark settings s the program holds, deserializing
\* the serialized form of s (SettingsStore.save, then SettingsStore.load)
\* gives settings equal to s in every field.
C17_RoundTripExact ==
    SettingsStore_load(SettingsStore_save(watermark_settings, export_settings))
        .watermark = watermark_settings

\* to_dict followed by from_dict, without the JSON text in between, gives
\* back equal settings
RoundTripInMemory ==
    WatermarkSettings_from_dict(WatermarkSettings_to_dict(watermark_settings))
        = watermark_settings

(***************************************************************************)
(* Properties that relate the preview to the export.                       *)
(***************************************************************************)
\* the export of the image the preview shows, at its native resolution
NativeExport ==
    export_item(base_pixmap, [resize_mode |-> "none", resize_value |-> 0],
                watermark_settings)

\* the rectangle in base-image pixels that the preview draws the overlay
\* in and tests the pointer against
PreviewRect ==
    watermark_rect_base(base_pixmap, watermark_pixmap, watermark_settings.layout)

\* C18: whenever the preview shows an image, its overlay rectangle in
\* base-image pixels (top-left corner and size) is the placement at which
\* the export draws the overlay on that image at its native resolution,
\* and the preview has no overlay exactly when the export draws none.
C18_PreviewIsExport ==
    base_pixmap # NoPixmap =>
        /\ PreviewRect.null <=> NativeExport.overlay.null
        /\ ~PreviewRect.null =>
              /\ <<PreviewRect.x, PreviewRect.y>> = NativeExport.draw_point
              /\ PreviewRect.width = RInt(NativeExport.overlay.size[1])
              /\ PreviewRect.height = RInt(NativeExport.overlay.size[2])

\* an overlay is shown off the centre anchor, on a position that a drag
\* or an anchor button left
C18_Witness ==
    /\ base_pixmap # NoPixmap
    /\ ~watermark_pixmap.null
    /\ watermark_settings.layout.anchor = "bottom_right"
    /\ watermark_settings.watermark_type = "image"
    /\ ~NativeExport.overlay.null
    /\ NativeExport.draw_point # NoPoint

(***************************************************************************)
(* Properties of the layout and of the drag state.                         *)
(***************************************************************************)
InUnitInterval(x) == RLe(RInt(0), x) /\ RLe(x, RInt(1))

\* C19: in every reachable state the layout's normalized position lies in
\* the unit square, whatever the size of the overlay, an overlay larger
\* than the base image included.
C19_PositionInUnitSquare ==
    /\ InUnitInterval(watermark_settings.layout.position[1])
    /\ InUnitInterval(watermark_settings.layout.position[2])

\* the part of C19 that holds: the position is in the unit square after a
\* drag of an overlay that is no larger than twice the image on each axis
PositionInUnitSquareUpToTwice ==
    (/\ last_move.handled
     /\ last_move.overlay[1] <= 2 * last_move.base[1]
     /\ last_move.overlay[2] <= 2 * last_move.base[2])
        => C19_PositionInUnitSquare

\* the rectangle of the widget that the rendered overlay occupies: the
\* overlay's rectangle in base-image pixels, scaled by the scale factor
\* and moved by the offset at which the scaled image is drawn
OnScreenLeft == RAdd(draw_rect.x, RMul(PreviewRect.x, scale_factor))
OnScreenTop == RAdd(draw_rect.y, RMul(PreviewRect.y, scale_factor))
OnScreenRight == RAdd(OnScreenLeft, RMul(PreviewRect.width, scale_factor))
OnScreenBottom == RAdd(OnScreenTop, RMul(PreviewRect.height, scale_factor))

\* a base image and an overlay exist and the point is on the overlay
OnOverlay(point) ==
    /\ base_pixmap # NoPixmap
    /\ ~watermark_pixmap.null
    /\ RLe(OnScreenLeft, RInt(point[1])) /\ RLe(RInt(point[1]), OnScreenRight)
    /\ RLe(OnScreenTop, RInt(point[2])) /\ RLe(RInt(point[2]), OnScreenBottom)

\* C20: the preview goes from idle to dragging only in a pointer-down step
\* whose point is inside the on-screen rectangle of the rendered overlay; a
\* pointer-down outside that rectangle, or without a base image or without
\* an overlay, leaves the preview idle and the layout as it was.
C20_DragStartsOnOverlay ==
    [][ /\ (~dragging /\ dragging') =>
               (StepOf("press") /\ OnOverlay(last_event'.point))
        /\ (StepOf("press") /\ ~dragging /\ ~OnOverlay(last_event'.point)) =>
               /\ ~dragging'
               /\ watermark_settings'.layout = watermark_settings.layout
      ]_vars

\* a drag has begun with a press on the overlay while the image is drawn
\* scaled and at an offset
C20_Witness ==
    /\ last_event.kind = "press"
    /\ ~last_event.was_dragging
    /\ dragging
    /\ OnOverlay(last_event.point)
    /\ scale_factor # RInt(1)
    /\ draw_rect.y # RInt(0)

\* a press beside the overlay of a loaded image has left the preview idle
PressBesideOverlay ==
    /\ last_event.kind = "press"
    /\ last_event.button = "left"
    /\ ~last_event.was_dragging
    /\ ~dragging
    /\ base_pixmap # NoPixmap
    /\ ~watermark_pixmap.null
    /\ ~OnOverlay(last_event.point)

\* C21 as stated: a pointer-up in the dragging state leaves the preview
\* idle, whatever the button and the position, and a pointer-move of an
\* idle preview changes no layout.
C21_PointerUpEndsDrag ==
    [][ /\ StepOf("release") => ~dragging'
        /\ (StepOf("move") /\ ~dragging) =>
               watermark_settings'.layout = watermark_settings.layout
      ]_vars

\* C21, amended: the release of the left button leaves the preview idle,
\* wherever the pointer is and whether or not an image and an overlay are
\* present; the release of another button leaves the state as it was; and a
\* pointer-move changes the layout only while dragging, never as the step
\* that follows the release of the left button.
C21_LeftReleaseEndsDrag ==
    [][ /\ (StepOf("release") /\ last_event'.button = "left") => ~dragging'
        /\ (StepOf("release") /\ last_event'.button # "left") =>
               dragging' = dragging
        /\ ( /\ StepOf("move")
             /\ watermark_settings'.layout # watermark_settings.layout ) =>
               /\ dragging
               /\ ~(last_event.kind = "release" /\ last_event.button = "left")
      ]_vars

\* the left button has been released after a move of a drag
C21_Witness ==
    /\ last_event.kind = "release"
    /\ last_event.button = "left"
    /\ last_event.was_dragging
    /\ last_event.after_move
    /\ ~dragging

\* the release of another button has left the preview dragging
OtherReleaseKeepsDragging ==
    /\ last_event.kind = "release"
    /\ last_event.button = "right"
    /\ last_event.was_dragging
    /\ dragging

\* the overlay's rectangle in base-image pixels under `layout`
RectUnder(layout) == watermark_rect_base(base_pixmap, watermark_pixmap, layout)

\* the rectangle lies within the bounds of the base image
WithinBase(r) ==
    /\ RLe(RInt(0), r.x) /\ RLe(RAdd(r.x, r.width), RInt(base_pixmap[1]))
    /\ RLe(RInt(0), r.y) /\ RLe(RAdd(r.y, r.height), RInt(base_pixmap[2]))

\* the centre of r moved by the vector d of the widget, in base-image pixels
MovedCentre(r, d) ==
    << RAdd(center(r)[1], RDiv(RInt(d[1]), scale_factor)),
       RAdd(center(r)[2], RDiv(RInt(d[2]), scale_factor)) >>

\* a rectangle of r's size around the centre c
Around(r, c) ==
    [r EXCEPT !.x = RSub(c[1], RDiv(r.width, RInt(2))),
              !.y = RSub(c[2], RDiv(r.height, RInt(2)))]

\* the step is a pointer-move that follows at once the left pointer-down on
\* the overlay at which the drag began
FirstMoveOfDrag ==
    /\ StepOf("move")
    /\ last_event.kind = "press"
    /\ last_event.button = "left"
    /\ OnOverlay(last_event.point)

\* C22: the grab offset is kept during a drag. With the overlay within the
\* image, whatever the anchor of the layout, the pointer-move that follows
\* the pointer-down on the overlay leaves the overlay's rectangle in
\* base-image pixels where it was when the pointer has not moved, and moves
\* its centre by d / scale factor when the pointer has moved by d and the
\* clamp does not act.
C22_GrabOffsetKept ==
    [][ (FirstMoveOfDrag /\ WithinBase(RectUnder(watermark_settings.layout))) =>
            LET before == RectUnder(watermark_settings.layout)
                after == RectUnder(watermark_settings'.layout)
                d == << last_event'.point[1] - last_event.point[1],
                        last_event'.point[2] - last_event.point[2] >>
            IN  /\ d = <<0, 0>> => after = before
                /\ WithinBase(Around(before, MovedCentre(before, d))) =>
                       center(after) = MovedCentre(before, d)
      ]_vars

\* a drag that began on an overlay anchored at the bottom right has moved
\* it, unclamped, by a pointer-move at a scale other than 1
C22_Witness ==
    /\ last_event.kind = "move"
    /\ last_move.handled
    /\ last_move.before.anchor = "bottom_right"
    /\ scale_factor # RInt(1)
    /\ LET before == RectUnder(last_move.before)
           grabbed == << RAdd(center(before)[1], last_move.delta[1]),
                         RAdd(center(before)[2], last_move.delta[2]) >>
       IN  /\ WithinBase(before)
           /\ contains(before, grabbed)
           /\ last_move.pointer_base # grabbed
           /\ center(RectUnder(watermark_settings.layout)) =
                  << RSub(last_move.pointer_base[1], last_move.delta[1]),
                     RSub(last_move.pointer_base[2], last_move.delta[2]) >>

\* the same with the pointer where it was pressed
SamePointMove ==
    /\ last_event.kind = "move"
    /\ last_move.handled
    /\ last_move.before.anchor = "bottom_right"
    /\ LET before == RectUnder(last_move.before)
       IN  /\ WithinBase(before)
           /\ last_move.pointer_base =
                  << RAdd(center(before)[1], last_move.delta[1]),
                     RAdd(center(before)[2], last_move.delta[2]) >>

\* the last move dragged an overlay larger than the image on the axis
Oversized(axis) == last_move.overlay[axis] > last_move.base[axis]

\* C23: a pointer-move that drags an overlay whose half-width exceeds half
\* the width of the base image emits the normalized x 1/2, the midpoint of
\* the image, wherever the pointer is; the same for the height and y.
C23_OversizedPinnedToMidpoint ==
    last_move.handled =>
        \A axis \in {1, 2} :
            Oversized(axis) => last_move.position[axis] = Rat(1, 2)

\* what the move emits instead: half the overlay's size over the size of
\* the image, wherever the pointer is
OversizedPinnedToHalfOverlay ==
    last_move.handled =>
        \A axis \in {1, 2} :
            Oversized(axis) =>
                last_move.position[axis] =
                    Rat(last_move.overlay[axis], 2 * last_move.base[axis])

(***************************************************************************)
(* Properties of the thumbnail cache and of the displayed list.            *)
(***************************************************************************)
\* load_thumbnail for a cached path returns the cached entry: the file is
\* not read and the cache stays as it is
CachedIsReturned(cache) ==
    \A path \in cache :
        LET r == load_thumbnail(path, cache, files, corrupt)
        IN  r.pixmap /\ ~r.read /\ r.cache = cache

\* C24 as stated: only the list-clear operation takes entries out of the
\* thumbnail cache; the removal of one image leaves every entry, that
\* image's too, in place; and load_thumbnail for a cached path returns the
\* cached entry.
C24_OnlyClearEvicts ==
    [][ /\ last_add'.op # "clear" => thumbnail_cache \subseteq thumbnail_cache'
        /\ CachedIsReturned(thumbnail_cache')
      ]_vars

\* C24, amended: the list-clear operation empties the thumbnail cache, the
\* removal of one image takes that image's entry out of it and no other,
\* no other operation takes an entry out, and load_thumbnail for a cached
\* path returns the cached entry.
C24_ClearAndRemoveEvict ==
    [][ /\ last_add'.op = "clear" => thumbnail_cache' = {}
        /\ last_add'.op = "remove_index" =>
               thumbnail_cache' = thumbnail_cache \ {last_add'.paths[1]}
        /\ last_add'.op \notin {"clear", "remove_index"} =>
               thumbnail_cache \subseteq thumbnail_cache'
        /\ CachedIsReturned(thumbnail_cache')
      ]_vars

\* an image whose thumbnail was cached has been removed from a list of
\* two cached images: its entry is gone and the other one is kept
C24_Witness ==
    /\ last_add.op = "remove_index"
    /\ load_pixmap(last_add.paths[1], files, corrupt)
    /\ last_add.paths[1] \notin thumbnail_cache
    /\ Len(items) = 1
    /\ items[1] \in thumbnail_cache

\* the thumbnail cache holds the images of the list that decode
CacheIsDecodableItems ==
    thumbnail_cache = { p \in Range(items) : load_pixmap(p, files, corrupt) }

\* C28: whatever import-images, import-folder, drop, remove-selected and
\* clear-list operations have been run, the displayed list and the list of
\* the image manager have the same length and row i of the displayed list
\* shows the path of entry i of the manager's list, so that the row the
\* user selected is the index of that image for remove and export.
C28_RowsMatchItems ==
    /\ Len(image_list) = Len(items)
    /\ \A i \in 1..Len(image_list) : image_list[i] = items[i]

\* an image other than the first has been removed from a list of three
\* that was filled from more than one directory
C28_Witness ==
    /\ last_add.op = "remove_index"
    /\ Len(image_list) = 2
    /\ image_list[1] # last_add.paths[1]
    /\ image_list[1].dir # image_list[2].dir

(***************************************************************************)
(* The box the drag clamp uses.                                            *)
(***************************************************************************)
\* the size of the overlay before the rotation
UnrotatedBox ==
    build_watermark(base_pixmap, [watermark_settings EXCEPT !.rotation = 0]).size

\* the bounding box of the overlay after the rotation by a quarter turn
RotatedBox ==
    IF watermark_settings.rotation % 180 = 0 THEN UnrotatedBox
    ELSE <<UnrotatedBox[2], UnrotatedBox[1]>>

\* the position the last move emits when the centre is clamped against
\* half of `box`
ClampedAgainst(box) ==
    [ axis \in {1, 2} |->
        RDiv(clamp(RSub(last_move.pointer_base[axis], last_move.delta[axis]),
                   Rat(box[axis], 2),
                   RSub(RInt(last_move.base[axis]), Rat(box[axis], 2))),
             RInt(last_move.base[axis])) ]

\* C25 as stated: the dragged centre is clamped against the half-width and
\* half-height the overlay had before the rotation, also when the rotation
\* is not 0.
C25_ClampUsesUnrotatedBox ==
    last_move.handled =>
        \A axis \in {1, 2} :
            last_move.position[axis] = ClampedAgainst(UnrotatedBox)[axis]

\* C25, amended: the dragged centre is clamped against the half-width and
\* half-height of the bounding box of the rotated overlay, which is the
\* pixmap the renderer returns.
C25_ClampUsesRotatedBox ==
    last_move.handled =>
        /\ watermark_pixmap.size = RotatedBox
        /\ \A axis \in {1, 2} :
               last_move.position[axis] = ClampedAgainst(RotatedBox)[axis]

\* a rotated overlay that fits the image has been dragged against an edge,
\* where the two boxes give different positions
C25_Witness ==
    /\ last_move.handled
    /\ watermark_settings.rotation = 90
    /\ RotatedBox # UnrotatedBox
    /\ RotatedBox[1] <= base_pixmap[1]
    /\ RotatedBox[2] <= base_pixmap[2]
    /\ ClampedAgainst(RotatedBox)[1] # ClampedAgainst(UnrotatedBox)[1]

(***************************************************************************)
(* The settings held after a load.                                         *)
(***************************************************************************)
\* the step just taken loaded settings: a template, or the settings file at
\* start-up
LoadedStep == last_store.op \in {"load", "launch"} /\ last_store.outcome = "loaded"

\* C26: after a successful load of a template, and after the stored
\* settings are applied at start-up, the watermark and export settings the
\* program holds equal the loaded ones in every field: no handler that
\* fires while the values are pushed into the widgets puts the stale value
\* of a widget over a loaded field.
C26_LoadedSettingsKept ==
    LoadedStep =>
        /\ watermark_settings = last_store.watermark
        /\ export_settings = last_store.export

\* what holds instead: the widgets and the settings agree after a load
WidgetsShowSettings ==
    LoadedStep =>
        /\ widgets.text_input = watermark_settings.text_settings.text
        /\ widgets.font_size_spin = watermark_settings.text_settings.font_size
        /\ widgets.opacity_slider = watermark_settings.text_settings.opacity
        /\ widgets.format_combo = export_settings.output_format

(***************************************************************************)
(* The files an export writes.                                             *)
(***************************************************************************)
\* the files that exist when the j-th file of the last export is written
ExistingAtWrite(j) ==
    last_export.before \cup { last_export.written[i] : i \in 1..(j - 1) }

\* C27: an export writes no file that exists at the moment of the write:
\* no source image and no earlier output is overwritten, whatever
\* prevent_overwrite, the naming mode and the output directory are, and the
\* items of one batch are written to different paths.
C27_ExportNeverOverwrites ==
    LET w == last_export.written
    IN  /\ \A j \in 1..Len(w) : w[j] \notin ExistingAtWrite(j)
        /\ \A i, j \in 1..Len(w) : i # j => w[i] # w[j]
        /\ \A i \in 1..Len(last_export.batch) :
               FileId(last_export.batch[i]) \in last_export.before =>
                   FileId(last_export.batch[i]) \notin Range(w)
        /\ last_export.before \subseteq last_export.after

\* with prevent_overwrite off and the original names kept, two images with
\* the same stem have been exported into the directory they are in
C27_Witness ==
    /\ last_export.outcome = "done"
    /\ ~last_export.settings.prevent_overwrite
    /\ last_export.settings.naming_mode = "keep"
    /\ Len(last_export.batch) = 2
    /\ Len(last_export.written) = 2
    /\ last_export.batch[1].stem = last_export.batch[2].stem
    /\ \A i \in 1..2 :
           Loc(last_export.batch[i].dir) = Loc(last_export.settings.output_dir)
    /\ last_export.written[1] # last_export.written[2]

\* the template names a user can give: the names typed, stripped as
\* ControlsPanel._on_template_save strips them, and the names listed
TemplateNames ==
    ({ strip(text) : text \in SaveTexts } \cup DOMAIN templates) \ {<<>>}

\* whether the file of template `name` exists in directory dir
template_exists(dir, name) == sanitize_name(name) \in DOMAIN dir

\* the step leaves template `other` as it was: the same file exists or is
\* absent, and load_template returns the same
Untouched(other) ==
    /\ template_exists(templates', other) = template_exists(templates, other)
    /\ load_template(templates', other) = load_template(templates, other)

\* C29: saving or deleting a template under name A changes neither what
\* load_template(B) returns nor whether B exists, for every other
\* non-empty name B different from A, names that differ only in
\* characters outside [A-Za-z0-9_-] included.
C29_TemplatesIndependent ==
    [][ (StoreStep("save") \/ StoreStep("delete")) =>
           \A other \in TemplateNames :
               other # last_store'.name => Untouched(other) ]_vars

\* the part of C29 that holds: templates whose sanitized names differ
\* are independent
TemplatesIndependentUpToSanitizing ==
    [][ (StoreStep("save") \/ StoreStep("delete")) =>
           \A other \in TemplateNames :
               sanitize_name(other) # sanitize_name(last_store'.name)
                  => Untouched(other) ]_vars

\* C30: whenever the preview is dragging, a base image and a rendered
\* overlay are present: removing or replacing the image, or emptying the
\* overlay, while dragging ends the drag.
C30_DraggingHasImageAndOverlay ==
    dragging => base_pixmap # NoPixmap /\ ~watermark_pixmap.null

\* the part of C30 that holds: a move changes the layout only while an
\* image and an overlay are present
MoveNeedsImageAndOverlay ==
    [][ StepOf("move") /\ watermark_settings'.layout # watermark_settings.layout
           => base_pixmap # NoPixmap /\ ~watermark_pixmap.null ]_vars

====
